---- MODULE Spec2Model ----
(***************************************************************************)
(* State-machine model of the collaborative workflow engine,               *)
(* backend/app/core/workflow.py (class WorkflowEngine).                    *)
(*                                                                         *)
(* Every public method of the engine is one action.  A call that raises    *)
(* ValueError is the ELSE branch of the same action: it leaves the engine  *)
(* untouched and records the failure in `last`, the outcome the caller     *)
(* observes.  uuid4() values are modelled as fresh positive integers,      *)
(* Python objects that the code shares by reference (a task's data dict,   *)
(* a participants list) as cells of `heap`.  Timestamps, names, comments   *)
(* and the uuid of a history event are stored by the code and never read   *)
(* back; they are left out.  Task handlers are opaque collaborators: an    *)
(* invocation either returns a result or raises, and does not call back    *)
(* into the engine, except for the handler of the task type "cancelling",  *)
(* during whose invocation cancel_workflow takes effect on the workflow    *)
(* (specification SpecInFlight).  Event listeners are opaque too: an invocation returns *)
(* or raises, and does not call back into the engine.  No notification     *)
(* handler is registered, so the _notify_ methods change nothing.          *)
(***************************************************************************)
EXTENDS Integers, Sequences, FiniteSets, TLC

VARIABLES workflows, workflow_templates, task_handlers, event_listeners, heap, nextId,
          last

vars == <<workflows, workflow_templates, task_handlers, event_listeners, heap, nextId,
          last>>

(***************************************************************************)
(* Bounds of the model.                                                    *)
(***************************************************************************)
OneWorkflow == 1
MaxWorkflows == 2
MaxDelegations == 1
MaxParticipantOps == 1
MaxSeqLen == 3
MaxInputs == 1
MaxListeners == 3

(***************************************************************************)
(* Values.                                                                 *)
(***************************************************************************)
NoId == 0
NoAddr == <<"none", 0, 0>>
None == "None"

\* WorkflowStatus
CREATED == "created"
RUNNING == "running"
WAITING == "waiting"
COMPLETED == "completed"
FAILED == "failed"
CANCELLED == "cancelled"

\* TaskStatus (RUNNING, COMPLETED, FAILED and CANCELLED have the same values)
PENDING == "pending"
WAITING_APPROVAL == "waiting_approval"
WAITING_INPUT == "waiting_input"
SKIPPED == "skipped"

\* ApprovalStatus (PENDING as above)
APPROVED == "approved"
REJECTED == "rejected"
DELEGATED == "delegated"

\* Inputs of the calls.
Approvers == {"A", "B", "C"}
\* Whom an approval is delegated to: an approver of the task, or a new one.
NewApprovers == {"A", "C"}
Datas == {"d1"}
Results == {"r1"}
Inputs == {"i1"}
Participants == {"p1"}
HandledTypes == {"auto"}
\* The task types with a handler during whose invocation cancel_workflow is
\* called for the workflow (by the handler itself or by another thread).
CancellingTypes == {"cancelling"}
\* What one invocation of a task handler does: it returns, or raises
\* an exception with this message.
Ok == "ok"
HandlerError == "boom"
Outcomes == {Ok, HandlerError}
HandlerResult == "r_handler"
\* The reasons the engine records, without the name, status or type the
\* code appends to them.
InvalidState == "Task kann nicht abgeschlossen werden"
UnknownType == "Unbekannter Task-Typ"
TaskFailed == "Task fehlgeschlagen"
Rejected == "Genehmigung abgelehnt"
DepsNotMet == "Abhaengigkeiten nicht erfuellt"

(***************************************************************************)
(* The templates a client registers.  A template is the dict handed to     *)
(* register_workflow_template; hasData says whether a task template has    *)
(* the key "data", participants is the list under "participants" or None   *)
(* when the key is absent.  A dependency in a template names a template    *)
(* task by an id of the template author's choosing: a negative number,     *)
(* never a uuid.                                                           *)
(***************************************************************************)
TplTaskId(j) == 0 - j

TaskTemplate(type, approvers, deps, hasData) ==
    [type |-> type, approvers |-> approvers, dependencies |-> deps, hasData |-> hasData]

TemplateIds == {"seq", "gate", "inp", "man", "dep", "hand"}
\* The templates registered with the engine: those above, and one whose
\* first task is of a cancelling type.
RegisteredIds == TemplateIds \cup {"fly"}

Catalogue(tid) ==
    CASE tid = "seq" ->
           [tasks |-> [j \in 1..MaxSeqLen |-> TaskTemplate("auto", <<>>, <<>>, FALSE)],
            participants |-> None]
      [] tid = "gate" ->
           [tasks |-> << TaskTemplate("manual", <<"A", "B">>, <<>>, TRUE),
                         TaskTemplate("auto", <<>>, <<>>, FALSE) >>,
            participants |-> <<"p1">>]
      [] tid = "inp" ->
           [tasks |-> << TaskTemplate("input", <<"A">>, <<>>, TRUE),
                         TaskTemplate("manual", <<>>, <<TplTaskId(1)>>, FALSE) >>,
            participants |-> None]
      [] tid = "man" ->
           [tasks |-> << TaskTemplate("manual", <<>>, <<>>, FALSE),
                         TaskTemplate("auto", <<>>, <<>>, FALSE),
                         TaskTemplate("auto", <<"A">>, <<>>, FALSE) >>,
            participants |-> None]
      [] tid = "fly" ->
           [tasks |-> << TaskTemplate("cancelling", <<>>, <<>>, FALSE),
                         TaskTemplate("auto", <<>>, <<>>, FALSE) >>,
            participants |-> None]
      [] tid = "dep" ->
           [tasks |-> << TaskTemplate("manual", <<>>, <<>>, FALSE),
                         TaskTemplate("manual", <<>>, <<TplTaskId(1)>>, FALSE) >>,
            participants |-> None]
      [] tid = "hand" ->
           [tasks |-> << TaskTemplate("manual", <<>>, <<>>, FALSE),
                         TaskTemplate("manual", <<>>, <<>>, FALSE),
                         TaskTemplate("manual", <<>>, <<>>, FALSE) >>,
            participants |-> None]

MaxTasks == IF MaxSeqLen > 3 THEN MaxSeqLen ELSE 3

(***************************************************************************)
(* Heap: the Python objects the engine shares by reference.  A cell is a   *)
(* dict (a task's data; its key "input") or a list (the participants, by   *)
(* participant id).  An address names the owner that created the object:   *)
(* a template (the client's dict) or a workflow (an object the engine      *)
(* made for it); index 0 is the participants list, j > 0 the data of       *)
(* task j.                                                                 *)
(***************************************************************************)
TemplateAddr(tid, j) == <<"template", tid, j>>
WorkflowAddr(wid, j) == <<"workflow", wid, j>>
Dict(input) == [input |-> input, items |-> <<>>]
List(items) == [input |-> None, items |-> items]

\* d[k] = v for a dict d (a function): insert or overwrite.
Put(d, k, v) == [x \in DOMAIN d \cup {k} |-> IF x = k THEN v ELSE d[x]]

\* The `for ... if ...: break` search of the engine: the first of the
\* indices of a list at which the test holds (hits), 0 if there is none.
FirstIndex(hits) ==
    IF hits = {} THEN 0 ELSE CHOOSE k \in hits : \A m \in hits : k <= m

FindTask(w, task_id) ==
    FirstIndex({k \in 1..Len(w.tasks) : w.tasks[k].id = task_id})

FindApproval(task, approval_id) ==
    FirstIndex({k \in 1..Len(task.approvals) : task.approvals[k].id = approval_id})

RemoveAt(s, i) == [k \in 1..(Len(s) - 1) |-> IF k < i THEN s[k] ELSE s[k + 1]]

(***************************************************************************)
(* The outcome of the last call, as its caller sees it: the method, the    *)
(* workflow, task and approval it named, its boolean argument, whether it  *)
(* returned (ok) or raised, and the handler invocations it made.           *)
(***************************************************************************)
(***************************************************************************)
(* Event listeners and _trigger_event.  The engine calls _trigger_event    *)
(* right after each _add_history_event, with the same event type, so the   *)
(* events a call publishes are the events it appends to the history.       *)
(***************************************************************************)
\* The listeners a client may register; l1 raises whenever it is invoked,
\* the others return.
Listeners == {"l1", "l2", "l3"}
Raising == {"l1"}
\* The event types a client registers listeners for.
ListenedTypes == {"task_started", "task_completed"}

\* self.event_listeners.get(event_type, [])
RegisteredFor(event_type) ==
    IF event_type \in DOMAIN event_listeners THEN event_listeners[event_type] ELSE <<>>

\* A variant in which the exception of a listener leaves the loop and
\* _trigger_event.
trigger_event_Propagating(event) ==
    LET ls == RegisteredFor(event.type)
        f == FirstIndex({k \in 1..Len(ls) : ls[k] \in Raising})
    IN  [heard |-> [k \in 1..(IF f = 0 THEN Len(ls) ELSE f) |->
                      [event |-> event, listener |-> ls[k]]],
         raised |-> f # 0]

\* _trigger_event: every listener registered for the type of the event is
\* invoked, in the order of registration; the exception of a listener is
\* caught and logged inside the loop.  heard: the invocations made;
\* raised: whether an exception leaves _trigger_event.
trigger_event(event) ==
    LET ls == RegisteredFor(event.type)
    IN  [heard |-> [k \in 1..Len(ls) |-> [event |-> event, listener |-> ls[k]]],
         raised |-> FALSE]

\* The _trigger_event calls of one engine call, for the events it publishes,
\* from the k-th on.
RECURSIVE trigger_events(_, _)
trigger_events(events, k) ==
    IF k > Len(events) THEN [heard |-> <<>>, raised |-> FALSE]
    ELSE LET t == trigger_event(events[k])
         IN  IF t.raised THEN t
             ELSE LET rest == trigger_events(events, k + 1)
                  IN  [heard |-> t.heard \o rest.heard, raised |-> rest.raised]

\* The events a call publishes for workflow wf: those it appends to the
\* history (for a workflow the call has registered: the one event it
\* appends to the history the workflow came with).
Published(wf) ==
    LET h == workflows'[wf].history
    IN  IF wf \in DOMAIN workflows
        THEN SubSeq(h, Len(workflows[wf].history) + 1, Len(h))
        ELSE SubSeq(h, Len(h), Len(h))

\* What the caller observes of a call, and what the listeners have.
Outcome(op, wf, task, appr, flag, ok, calls, heard) ==
    [op |-> op, wf |-> wf, task |-> task, appr |-> appr, flag |-> flag,
     ok |-> ok, calls |-> calls, heard |-> heard]

Call(op, wf, task, appr, flag, ok, calls) ==
    LET t == IF wf \in DOMAIN workflows' THEN trigger_events(Published(wf), 1)
             ELSE [heard |-> <<>>, raised |-> FALSE]
    IN  Outcome(op, wf, task, appr, flag, ok /\ ~t.raised, calls, t.heard)

Raised(op, wf) == Outcome(op, wf, NoId, NoId, FALSE, FALSE, <<>>, <<>>)

(***************************************************************************)
(* register_workflow_template.  The engine stores the client's dict as it  *)
(* is.  The engine of the model starts with the templates of the           *)
(* catalogue registered, and with no workflow and no task handler.         *)
(***************************************************************************)
register_workflow_template(templates, tid) ==
    LET c == Catalogue(tid)
        template ==
          [tasks |-> [j \in 1..Len(c.tasks) |->
                        [type |-> c.tasks[j].type,
                         approvers |-> c.tasks[j].approvers,
                         dependencies |-> c.tasks[j].dependencies,
                         data |-> IF c.tasks[j].hasData THEN TemplateAddr(tid, j)
                                  ELSE NoAddr]],
           participants |-> IF c.participants = None THEN NoAddr
                            ELSE TemplateAddr(tid, 0)]
    IN  Put(templates, tid, template)

RECURSIVE RegisterAll(_, _)
RegisterAll(templates, tids) ==
    IF tids = {} THEN templates
    ELSE LET tid == CHOOSE t \in tids : TRUE
         IN  RegisterAll(register_workflow_template(templates, tid), tids \ {tid})

\* The objects of the registered template dicts.
TemplateHeap ==
    LET addrs == {TemplateAddr(tid, 0) : tid \in {t \in RegisteredIds : Catalogue(t).participants # None}}
                 \cup UNION {{TemplateAddr(tid, j) :
                                j \in {k \in 1..Len(Catalogue(tid).tasks) :
                                         Catalogue(tid).tasks[k].hasData}} :
                             tid \in RegisteredIds}
    IN  [a \in addrs |-> IF a[3] = 0 THEN List(Catalogue(a[2]).participants)
                         ELSE Dict(None)]

Init ==
    /\ workflows = << >>
    /\ workflow_templates = RegisterAll(<< >>, RegisteredIds)
    /\ task_handlers = {}
    /\ heap = TemplateHeap
    /\ nextId = 0
    /\ event_listeners = << >>
    /\ last = Outcome("init", NoId, NoId, NoId, FALSE, TRUE, <<>>, <<>>)

(***************************************************************************)
(* register_event_listener                                                 *)
(***************************************************************************)
ListenerCount ==
    Cardinality(UNION {{<<t, k>> : k \in 1..Len(event_listeners[t])} :
                       t \in DOMAIN event_listeners})

register_event_listener(event_type, listener) ==
    /\ ListenerCount < MaxListeners
    /\ event_listeners' = Put(event_listeners, event_type,
                              Append(RegisteredFor(event_type), listener))
    /\ last' = Outcome("register_event_listener", NoId, NoId, NoId, FALSE, TRUE, <<>>, <<>>)
    /\ UNCHANGED <<workflows, workflow_templates, task_handlers, heap, nextId>>

(***************************************************************************)
(* register_task_handler                                                   *)
(***************************************************************************)
register_task_handler(task_type) ==
    /\ task_type \notin task_handlers
    /\ task_handlers' = task_handlers \cup {task_type}
    /\ last' = Outcome("register_task_handler", NoId, NoId, NoId, FALSE, TRUE, <<>>, <<>>)
    /\ UNCHANGED <<workflows, workflow_templates, event_listeners, heap, nextId>>

(***************************************************************************)
(* _add_history_event                                                      *)
(***************************************************************************)
\* An event: its type, the id of the task (or workflow) it is about, and
\* the strings of its data (reason, approvers, participant).
Event(type, ref, info) == [type |-> type, ref |-> ref, info |-> info]

\* The number of events of history h whose type is in types.
EventCount(h, types) == Cardinality({k \in 1..Len(h) : h[k].type \in types})

\* A variant that puts the event in front of the history.
add_history_event_InFront(w, type, ref, info) ==
    [w EXCEPT !.history = <<Event(type, ref, info)>> \o @]

add_history_event(w, type, ref, info) ==
    [w EXCEPT !.history = Append(@, Event(type, ref, info))]

(***************************************************************************)
(* create_workflow                                                         *)
(***************************************************************************)
\* A variant that draws one uuid for all the approvals of a task.
NewApprovals_OneUuid(approvers, firstId) ==
    [k \in 1..Len(approvers) |->
        [id |-> firstId, approver |-> approvers[k], status |-> PENDING]]

\* One PENDING approval per listed approver; the first gets uuid firstId.
NewApprovals(approvers, firstId) ==
    [k \in 1..Len(approvers) |->
        [id |-> firstId + k - 1, approver |-> approvers[k], status |-> PENDING]]

\* The loop over template["tasks"]; id is the last uuid drawn so far.  A
\* task takes the template's data dict itself when the template has one
\* (task_template.get("data", {})), and a new empty dict otherwise.
RECURSIVE NewTasks(_, _, _, _)
NewTasks(tts, j, id, wid) ==
    IF j > Len(tts) THEN <<>>
    ELSE LET tt == tts[j]
             task == [id |-> id + 1,
                      type |-> tt.type,
                      status |-> PENDING,
                      approvers |-> tt.approvers,
                      data |-> IF tt.data = NoAddr THEN WorkflowAddr(wid, j) ELSE tt.data,
                      dependencies |-> tt.dependencies,
                      result |-> None,
                      approvals |-> NewApprovals(tt.approvers, id + 2)]
         IN  <<task>> \o NewTasks(tts, j + 1, id + 1 + Len(tt.approvers), wid)

\* The objects create_workflow makes for workflow w: the default [] and {}.
NewObjects(hp, w) ==
    LET addrs == ({w.participants} \cup {w.tasks[j].data : j \in 1..Len(w.tasks)})
                 \ DOMAIN hp
    IN  [a \in DOMAIN hp \cup addrs |->
           IF a \in DOMAIN hp THEN hp[a] ELSE IF a[3] = 0 THEN List(<<>>) ELSE Dict(None)]

\* The number of uuids a workflow holds: its own, its tasks', its approvals'.
RECURSIVE IdCount(_, _)
IdCount(tasks, j) ==
    IF j > Len(tasks) THEN 1 ELSE 1 + Len(tasks[j].approvals) + IdCount(tasks, j + 1)

create_workflow(template_id, data) ==
    IF template_id \notin DOMAIN workflow_templates
    THEN /\ last' = Raised("create_workflow", NoId)
         /\ UNCHANGED <<workflows, workflow_templates, event_listeners, task_handlers, heap, nextId>>
    ELSE /\ LET template == workflow_templates[template_id]
                wid == nextId + 1
                workflow == [id |-> wid,
                             template_id |-> template_id,
                             status |-> CREATED,
                             tasks |-> NewTasks(template.tasks, 1, wid, wid),
                             data |-> data,
                             current_task_index |-> 0,
                             participants |-> IF template.participants = NoAddr
                                              THEN WorkflowAddr(wid, 0)
                                              ELSE template.participants,
                             history |-> <<>>]
            IN  /\ workflows' = Put(workflows, wid,
                                   add_history_event(workflow, "workflow_created", NoId, <<>>))
                /\ heap' = NewObjects(heap, workflow)
                /\ nextId' = nextId + IdCount(workflow.tasks, 1)
                /\ last' = Call("create_workflow", wid, NoId, NoId, FALSE, TRUE, <<>>)
         /\ UNCHANGED <<workflow_templates, event_listeners, task_handlers>>

(***************************************************************************)
(* _process_next_task, _execute_task and the body of complete_task call    *)
(* each other.  They work on a run r = [wf, calls]: the workflow dict as   *)
(* the call has changed it so far, and the handler invocations made so     *)
(* far.  hs is task_handlers; oc[i] is what the handler does when it is    *)
(* invoked for task i: Ok, or the message of the exception it raises.      *)
(***************************************************************************)
\* A variant without the status check.
can_cancel_Always(w) == TRUE

can_cancel(w) == w.status \notin {COMPLETED, FAILED, CANCELLED}

\* A variant that skips the tasks waiting for approval.
cancelled_tasks_NotApproval(w) ==
    [j \in 1..Len(w.tasks) |->
       IF w.tasks[j].status \in {PENDING, RUNNING, WAITING_INPUT}
       THEN [w.tasks[j] EXCEPT !.status = CANCELLED]
       ELSE w.tasks[j]]

\* The loop over workflow["tasks"]: every task that is not finished is
\* CANCELLED.
cancelled_tasks(w) ==
    [j \in 1..Len(w.tasks) |->
       IF w.tasks[j].status \in {PENDING, RUNNING, WAITING_APPROVAL, WAITING_INPUT}
       THEN [w.tasks[j] EXCEPT !.status = CANCELLED]
       ELSE w.tasks[j]]

\* What cancel_workflow does to the workflow dict w.
cancel_workflow_body(w) ==
    add_history_event([w EXCEPT !.status = CANCELLED, !.tasks = cancelled_tasks(w)],
                      "workflow_cancelled", NoId, <<>>)

RECURSIVE process_next_task(_, _, _)
RECURSIVE execute_task(_, _, _, _)
RECURSIVE complete_task_body(_, _, _, _, _)

\* for dep_id in task["dependencies"]: the first task with that id exists
\* and is COMPLETED.
\* A variant that takes a dependency that is no task of the workflow for met.
dependencies_met_MissingOk(w, task) ==
    \A k \in 1..Len(task.dependencies) :
        LET d == FindTask(w, task.dependencies[k])
        IN  d = 0 \/ w.tasks[d].status = COMPLETED

\* A variant that takes every dependency for met.
dependencies_met_Always(w, task) == TRUE

dependencies_met(w, task) ==
    \A k \in 1..Len(task.dependencies) :
        LET d == FindTask(w, task.dependencies[k])
        IN  d # 0 /\ w.tasks[d].status = COMPLETED

\* A variant that fails the task and leaves the workflow's status alone.
fail_task_TaskOnly(w, i, reason) ==
    add_history_event(add_history_event([w EXCEPT !.tasks[i].status = FAILED],
                                        "task_failed", w.tasks[i].id, <<reason>>),
                      "workflow_failed", NoId, <<TaskFailed>>)

\* The task and its workflow become FAILED (the except branch and the
\* unknown-type branch of _execute_task).
fail_task(w, i, reason) ==
    LET w1 == add_history_event([w EXCEPT !.tasks[i].status = FAILED],
                                "task_failed", w.tasks[i].id, <<reason>>)
    IN  add_history_event([w1 EXCEPT !.status = FAILED],
                          "workflow_failed", NoId, <<TaskFailed>>)

process_next_task(r, hs, oc) ==
    LET w == r.wf IN
    IF w.current_task_index >= Len(w.tasks)
    THEN [r EXCEPT !.wf = add_history_event([w EXCEPT !.status = COMPLETED],
                                            "workflow_completed", NoId, <<>>)]
    ELSE LET i == w.current_task_index + 1
             task == w.tasks[i]
         IN  IF ~dependencies_met(w, task)
             THEN [r EXCEPT !.wf = add_history_event([w EXCEPT !.status = WAITING],
                                                     "workflow_waiting", NoId, <<DepsNotMet>>)]
             ELSE execute_task(
                    [r EXCEPT !.wf = add_history_event([w EXCEPT !.tasks[i].status = RUNNING],
                                                       "task_started", task.id, <<>>)],
                    i, hs, oc)

\* A variant that hands over to the next task whether or not the task has
\* approvers.
complete_task_body_NoGate(r, i, result, hs, oc) ==
    LET w == r.wf
        w1 == add_history_event([w EXCEPT !.tasks[i].status = COMPLETED,
                                          !.tasks[i].result = result],
                                "task_completed", w.tasks[i].id, <<>>)
    IN  process_next_task([r EXCEPT !.wf = [w1 EXCEPT !.current_task_index = i]], hs, oc)

\* A variant that stores the result and leaves the task's status alone.
complete_task_body_KeepStatus(r, i, result, hs, oc) ==
    LET w == r.wf
        task == w.tasks[i]
        w1 == add_history_event([w EXCEPT !.tasks[i].result = result],
                                "task_completed", task.id, <<>>)
    IN  IF task.approvers # <<>>
        THEN [r EXCEPT !.wf =
                add_history_event([w1 EXCEPT !.tasks[i].status = WAITING_APPROVAL],
                                  "task_waiting_approval", task.id,
                                  [k \in 1..Len(task.approvals) |-> task.approvals[k].approver])]
        ELSE process_next_task([r EXCEPT !.wf = [w1 EXCEPT !.current_task_index = i]],
                               hs, oc)

\* complete_task after its checks: the task is COMPLETED, then either
\* waits for its approvers or hands over to the next task.
complete_task_body(r, i, result, hs, oc) ==
    LET w == r.wf
        task == w.tasks[i]
        w1 == add_history_event([w EXCEPT !.tasks[i].status = COMPLETED,
                                          !.tasks[i].result = result],
                                "task_completed", task.id, <<>>)
    IN  IF task.approvers # <<>>
        THEN [r EXCEPT !.wf =
                add_history_event([w1 EXCEPT !.tasks[i].status = WAITING_APPROVAL],
                                  "task_waiting_approval", task.id,
                                  [k \in 1..Len(task.approvals) |-> task.approvals[k].approver])]
        ELSE process_next_task([r EXCEPT !.wf = [w1 EXCEPT !.current_task_index = i]],
                               hs, oc)

\* A variant without the status check.
can_complete_Always(task) == TRUE

\* A variant that also lets a task that is already COMPLETED be completed.
can_complete_Again(task) == task.status \in {RUNNING, WAITING_INPUT, COMPLETED}

can_complete(task) == task.status \in {RUNNING, WAITING_INPUT}

execute_task(r, i, hs, oc) ==
    LET w == r.wf
        task == w.tasks[i]
    IN  IF task.type \in hs
        THEN LET \* the workflow when the handler returns or raises
                 wh == IF task.type \in CancellingTypes /\ can_cancel(w)
                       THEN cancel_workflow_body(w) ELSE w
                 r1 == [r EXCEPT !.wf = wh,
                                 !.calls = Append(@, [task |-> task.id, out |-> oc[i]])]
             IN  IF oc[i] # Ok
                 THEN [r1 EXCEPT !.wf = fail_task(wh, i, oc[i])]
                 ELSE IF ~can_complete(wh.tasks[i])
                 THEN [r1 EXCEPT !.wf = fail_task(wh, i, InvalidState)]
                 ELSE complete_task_body(r1, i, HandlerResult, hs, oc)
        ELSE IF task.type = "manual"
        THEN r
        ELSE IF task.type = "input"
        THEN [r EXCEPT !.wf = add_history_event([w EXCEPT !.tasks[i].status = WAITING_INPUT],
                                                "task_waiting_input", task.id, <<>>)]
        ELSE [r EXCEPT !.wf = fail_task(w, i, UnknownType)]

Run(w) == [wf |-> w, calls |-> <<>>]

\* A run ends with the first handler that raises, so at most one of the
\* invocations of a call raises.
\* Without a registered handler there is no invocation to choose for.
HandlerOutcomes ==
    IF task_handlers = {} THEN {[i \in 1..MaxTasks |-> Ok]}
    ELSE {oc \in [1..MaxTasks -> Outcomes] :
            \A i, j \in 1..MaxTasks : (oc[i] # Ok /\ oc[j] # Ok) => i = j}

\* The ids a caller may name: those of the engine, and one that is unknown.
WorkflowIds == IF DOMAIN workflows = {} THEN {NoId} ELSE DOMAIN workflows
TaskIds(wid) ==
    IF wid \in DOMAIN workflows
    THEN {workflows[wid].tasks[j].id : j \in 1..Len(workflows[wid].tasks)} \cup {NoId}
    ELSE {NoId}
ApprovalIds(wid, tid) ==
    IF wid \in DOMAIN workflows /\ FindTask(workflows[wid], tid) # 0
    THEN LET task == workflows[wid].tasks[FindTask(workflows[wid], tid)]
         IN  {task.approvals[k].id : k \in 1..Len(task.approvals)} \cup {NoId}
    ELSE {NoId}

(***************************************************************************)
(* start_workflow                                                          *)
(***************************************************************************)
\* A variant without the status check.
can_start_Always(w) == TRUE

\* A variant that refuses a RUNNING workflow only.
can_start_NotRunning(w) == w.status # RUNNING

can_start(w) == w.status = CREATED

start_workflow(workflow_id) ==
    IF workflow_id \notin DOMAIN workflows \/ ~can_start(workflows[workflow_id])
    THEN /\ last' = Raised("start_workflow", workflow_id)
         /\ UNCHANGED <<workflows, workflow_templates, event_listeners, task_handlers, heap, nextId>>
    ELSE \E oc \in HandlerOutcomes :
         LET w == workflows[workflow_id]
             w1 == add_history_event([w EXCEPT !.status = RUNNING],
                                     "workflow_started", NoId, <<>>)
             r == process_next_task(Run(w1), task_handlers, oc)
         IN  /\ workflows' = [workflows EXCEPT ![workflow_id] = r.wf]
             /\ last' = Call("start_workflow", workflow_id, NoId, NoId, FALSE, TRUE, r.calls)
             /\ UNCHANGED <<workflow_templates, event_listeners, task_handlers, heap, nextId>>

(***************************************************************************)
(* complete_task                                                           *)
(***************************************************************************)
complete_task(workflow_id, task_id, result) ==
    LET i == IF workflow_id \in DOMAIN workflows
             THEN FindTask(workflows[workflow_id], task_id) ELSE 0
    IN  IF i = 0 \/ ~can_complete(workflows[workflow_id].tasks[i])
        THEN /\ last' = Raised("complete_task", workflow_id)
             /\ UNCHANGED <<workflows, workflow_templates, event_listeners, task_handlers, heap, nextId>>
        ELSE \E oc \in HandlerOutcomes :
             LET r == complete_task_body(Run(workflows[workflow_id]), i, result,
                                         task_handlers, oc)
             IN  /\ workflows' = [workflows EXCEPT ![workflow_id] = r.wf]
                 /\ last' = Call("complete_task", workflow_id, task_id, NoId, FALSE, TRUE,
                                 r.calls)
                 /\ UNCHANGED <<workflow_templates, event_listeners, task_handlers, heap, nextId>>

(***************************************************************************)
(* approve_task                                                            *)
(***************************************************************************)
\* A variant for which a DELEGATED approval is still open.
IsPending_OrDelegated(a) == a.status \in {PENDING, DELEGATED}

IsPending(a) == a.status = PENDING

\* A variant that takes the first decision for the consensus.
all_completed_FirstDecides(approvals) == TRUE

\* A variant that looks at the last approval of the task only.
all_completed_LastOnly(approvals) == ~IsPending(approvals[Len(approvals)])

\* The loop over task["approvals"]: it stops at the first PENDING one.
all_completed(approvals) ==
    FirstIndex({k \in 1..Len(approvals) : IsPending(approvals[k])}) = 0

\* A variant that overlooks the REJECTED approvals.
any_rejected_Never(approvals) == FALSE

any_rejected(approvals) ==
    LET p == FirstIndex({k \in 1..Len(approvals) : IsPending(approvals[k])})
        n == IF p = 0 THEN Len(approvals) ELSE p - 1
    IN  \E k \in 1..n : approvals[k].status = REJECTED

\* A variant that accepts an approval whatever its status.
approval_index_AnyStatus(workflow_id, task_id, approval_id) ==
    LET i == IF workflow_id \in DOMAIN workflows
             THEN FindTask(workflows[workflow_id], task_id) ELSE 0
    IN  IF i = 0 THEN 0
        ELSE IF workflows[workflow_id].tasks[i].status # WAITING_APPROVAL THEN 0
        ELSE FindApproval(workflows[workflow_id].tasks[i], approval_id)

\* The state checks approve_task and delegate_approval share.
approval_index(workflow_id, task_id, approval_id) ==
    LET i == IF workflow_id \in DOMAIN workflows
             THEN FindTask(workflows[workflow_id], task_id) ELSE 0
    IN  IF i = 0 THEN 0
        ELSE IF workflows[workflow_id].tasks[i].status # WAITING_APPROVAL THEN 0
        ELSE LET a == FindApproval(workflows[workflow_id].tasks[i], approval_id)
             IN  IF a = 0 THEN 0
                 ELSE IF workflows[workflow_id].tasks[i].approvals[a].status # PENDING
                 THEN 0 ELSE a

approve_task(workflow_id, task_id, approval_id, approved) ==
    LET a == approval_index(workflow_id, task_id, approval_id)
    IN  IF a = 0
        THEN /\ last' = Raised("approve_task", workflow_id)
             /\ UNCHANGED <<workflows, workflow_templates, event_listeners, task_handlers, heap, nextId>>
        ELSE \E oc \in HandlerOutcomes :
             LET w == workflows[workflow_id]
                 i == FindTask(w, task_id)
                 w1 == add_history_event(
                         [w EXCEPT !.tasks[i].approvals[a].status =
                                       IF approved THEN APPROVED ELSE REJECTED],
                         IF approved THEN "task_approved" ELSE "task_rejected",
                         task_id, <<w.tasks[i].approvals[a].approver>>)
                 approvals == w1.tasks[i].approvals
                 r == IF ~all_completed(approvals) THEN Run(w1)
                      ELSE IF any_rejected(approvals)
                      THEN Run(add_history_event(
                                 [add_history_event([w1 EXCEPT !.tasks[i].status = FAILED],
                                                    "task_failed", task_id, <<Rejected>>)
                                    EXCEPT !.status = FAILED],
                                 "workflow_failed", NoId, <<TaskFailed>>))
                      ELSE process_next_task(Run([w1 EXCEPT !.current_task_index = i]),
                                             task_handlers, oc)
             IN  /\ workflows' = [workflows EXCEPT ![workflow_id] = r.wf]
                 /\ last' = Call("approve_task", workflow_id, task_id, approval_id,
                                 approved, TRUE, r.calls)
                 /\ UNCHANGED <<workflow_templates, event_listeners, task_handlers, heap, nextId>>

(***************************************************************************)
(* delegate_approval                                                       *)
(***************************************************************************)
DelegationCount ==
    LET n(wid) == EventCount(workflows[wid].history, {"approval_delegated"})
        RECURSIVE Sum(_)
        Sum(wids) == IF wids = {} THEN 0
                     ELSE LET wid == CHOOSE x \in wids : TRUE
                          IN  n(wid) + Sum(wids \ {wid})
    IN  Sum(DOMAIN workflows)

delegate_approval(workflow_id, task_id, approval_id, new_approver) ==
    LET a == approval_index(workflow_id, task_id, approval_id)
    IN  IF a = 0
        THEN /\ last' = Raised("delegate_approval", workflow_id)
             /\ UNCHANGED <<workflows, workflow_templates, event_listeners, task_handlers, heap, nextId>>
        ELSE /\ DelegationCount < MaxDelegations
             /\ LET w == workflows[workflow_id]
                    i == FindTask(w, task_id)
                    new_approval == [id |-> nextId + 1, approver |-> new_approver,
                                     status |-> PENDING]
                    w1 == [w EXCEPT !.tasks[i].approvals =
                                      Append([@ EXCEPT ![a].status = DELEGATED], new_approval)]
                IN  /\ workflows' = [workflows EXCEPT ![workflow_id] =
                          add_history_event(w1, "approval_delegated", task_id,
                                            <<w.tasks[i].approvals[a].approver, new_approver>>)]
                    /\ nextId' = nextId + 1
                    /\ last' = Call("delegate_approval", workflow_id, task_id, approval_id,
                                    FALSE, TRUE, <<>>)
             /\ UNCHANGED <<workflow_templates, event_listeners, task_handlers, heap>>

(***************************************************************************)
(* provide_input                                                           *)
(***************************************************************************)
provide_input(workflow_id, task_id, input_data) ==
    LET i == IF workflow_id \in DOMAIN workflows
             THEN FindTask(workflows[workflow_id], task_id) ELSE 0
    IN  IF i = 0 \/ workflows[workflow_id].tasks[i].status # WAITING_INPUT
        THEN /\ last' = Raised("provide_input", workflow_id)
             /\ UNCHANGED <<workflows, workflow_templates, event_listeners, task_handlers, heap, nextId>>
        ELSE /\ EventCount(workflows[workflow_id].history, {"input_provided"}) < MaxInputs
             /\ \E oc \in HandlerOutcomes :
                  LET w == workflows[workflow_id]
                      w1 == add_history_event([w EXCEPT !.tasks[i].status = RUNNING],
                                              "input_provided", task_id, <<>>)
                      r == execute_task(Run(w1), FindTask(w1, task_id), task_handlers, oc)
                  IN  /\ workflows' = [workflows EXCEPT ![workflow_id] = r.wf]
                      /\ heap' = [heap EXCEPT ![w.tasks[i].data].input = input_data]
                      /\ last' = Call("provide_input", workflow_id, task_id, NoId, FALSE,
                                      TRUE, r.calls)
             /\ UNCHANGED <<workflow_templates, event_listeners, task_handlers, nextId>>

(***************************************************************************)
(* cancel_workflow                                                         *)
(***************************************************************************)
cancel_workflow(workflow_id) ==
    IF workflow_id \notin DOMAIN workflows \/ ~can_cancel(workflows[workflow_id])
    THEN /\ last' = Raised("cancel_workflow", workflow_id)
         /\ UNCHANGED <<workflows, workflow_templates, event_listeners, task_handlers, heap, nextId>>
    ELSE LET w == workflows[workflow_id]
         IN  /\ workflows' = [workflows EXCEPT ![workflow_id] = cancel_workflow_body(w)]
             /\ last' = Call("cancel_workflow", workflow_id, NoId, NoId, FALSE, TRUE, <<>>)
             /\ UNCHANGED <<workflow_templates, event_listeners, task_handlers, heap, nextId>>

(***************************************************************************)
(* add_workflow_participant, remove_workflow_participant                   *)
(***************************************************************************)
ParticipantEvents == {"participant_added", "participant_updated", "participant_removed"}

ParticipantOps ==
    LET n(wid) == EventCount(workflows[wid].history, ParticipantEvents)
        RECURSIVE Sum(_)
        Sum(wids) == IF wids = {} THEN 0
                     ELSE LET wid == CHOOSE x \in wids : TRUE
                          IN  n(wid) + Sum(wids \ {wid})
    IN  Sum(DOMAIN workflows)

add_workflow_participant(workflow_id, participant) ==
    IF workflow_id \notin DOMAIN workflows
    THEN /\ last' = Raised("add_workflow_participant", workflow_id)
         /\ UNCHANGED <<workflows, workflow_templates, event_listeners, task_handlers, heap, nextId>>
    ELSE /\ ParticipantOps < MaxParticipantOps
         /\ LET w == workflows[workflow_id]
                items == heap[w.participants].items
                known == FirstIndex({k \in 1..Len(items) : items[k] = participant}) # 0
            IN  /\ heap' = IF known THEN heap
                           ELSE [heap EXCEPT ![w.participants].items = Append(@, participant)]
                /\ workflows' = [workflows EXCEPT ![workflow_id] =
                      add_history_event(w, IF known THEN "participant_updated"
                                           ELSE "participant_added",
                                        NoId, <<participant>>)]
         /\ last' = Call("add_workflow_participant", workflow_id, NoId, NoId, FALSE, TRUE, <<>>)
         /\ UNCHANGED <<workflow_templates, event_listeners, task_handlers, nextId>>

remove_workflow_participant(workflow_id, participant_id) ==
    LET items == heap[workflows[workflow_id].participants].items
        k == IF workflow_id \in DOMAIN workflows
             THEN FirstIndex({x \in 1..Len(items) : items[x] = participant_id}) ELSE 0
    IN  IF k = 0
        THEN /\ last' = Raised("remove_workflow_participant", workflow_id)
             /\ UNCHANGED <<workflows, workflow_templates, event_listeners, task_handlers, heap, nextId>>
        ELSE /\ ParticipantOps < MaxParticipantOps
             /\ LET w == workflows[workflow_id]
                IN  /\ heap' = [heap EXCEPT ![w.participants].items = RemoveAt(@, k)]
                    /\ workflows' = [workflows EXCEPT ![workflow_id] =
                          add_history_event(w, "participant_removed", NoId,
                                            <<participant_id>>)]
             /\ last' = Call("remove_workflow_participant", workflow_id, NoId, NoId, FALSE,
                             TRUE, <<>>)
             /\ UNCHANGED <<workflow_templates, event_listeners, task_handlers, nextId>>

(***************************************************************************)
(* export_workflow and import_workflow.  A snapshot is the JSON copy of a  *)
(* workflow dict: its data dicts and its participants list are values of   *)
(* their own, no longer objects shared with anyone.                        *)
(***************************************************************************)
\* A variant whose copy leaves the dependencies of the tasks out.
export_workflow_NoDependencies(workflow_id) ==
    LET w == workflows[workflow_id]
    IN  [w EXCEPT !.participants = heap[@],
                  !.tasks = [j \in 1..Len(w.tasks) |->
                               [w.tasks[j] EXCEPT !.data = heap[@], !.dependencies = <<>>]]]

export_workflow(workflow_id) ==
    LET w == workflows[workflow_id]
    IN  [w EXCEPT !.participants = heap[@],
                  !.tasks = [j \in 1..Len(w.tasks) |-> [w.tasks[j] EXCEPT !.data = heap[@]]]]

\* Snapshots a client has written by hand: workflows that were never
\* started, with ids of the client's choosing (negative numbers), of three
\* manual tasks.  In "later" the second task depends on the third, in
\* "earlier" it depends on the first.
SnapshotIds == {"later", "earlier"}

\* The fields a snapshot may lack for the import to raise after the tasks
\* have been renamed.
IncompleteFields == {"history"}

Snapshot(sid) ==
    LET task(j, deps) ==
          [id |-> TplTaskId(10 + j), type |-> "manual", status |-> PENDING,
           approvers |-> <<>>, data |-> Dict(None), dependencies |-> deps,
           result |-> None, approvals |-> <<>>]
    IN  [id |-> TplTaskId(10), template_id |-> sid, status |-> CREATED,
         tasks |-> << task(1, <<>>),
                      task(2, IF sid = "later" THEN <<TplTaskId(13)>> ELSE <<TplTaskId(11)>>),
                      task(3, <<>>) >>,
         data |-> "d1", current_task_index |-> 0, participants |-> List(<<>>),
         history |-> <<>>]

\* The snapshot sid without the field f.
IncompleteSnapshot(sid, f) ==
    [g \in DOMAIN Snapshot(sid) \ {f} |-> Snapshot(sid)[g]]

\* The uuid that import_workflow draws for task j of a snapshot, when wid is
\* the one it has drawn for the workflow: the ids are drawn task by task,
\* each task's approvals right after the task.
RECURSIVE ImportedTaskId(_, _, _)
ImportedTaskId(tasks, j, wid) ==
    IF j = 1 THEN wid + 1
    ELSE ImportedTaskId(tasks, j - 1, wid) + 1 + Len(tasks[j - 1].approvals)

\* id_mapping, as the pairs <<old id, new id>> in the order in which
\* import_workflow enters them.
RECURSIVE IdPairs(_, _, _)
IdPairs(tasks, j, wid) ==
    IF j > Len(tasks) THEN <<>>
    ELSE << <<tasks[j].id, ImportedTaskId(tasks, j, wid)>> >>
         \o [k \in 1..Len(tasks[j].approvals) |->
               <<tasks[j].approvals[k].id, ImportedTaskId(tasks, j, wid) + k>>]
         \o IdPairs(tasks, j + 1, wid)

\* id_mapping[old]: the pair entered last wins; 0 when old is not a key.
id_mapping(pairs, old) ==
    LET hits == {k \in 1..Len(pairs) : pairs[k][1] = old}
    IN  IF hits = {} THEN NoId
        ELSE pairs[CHOOSE k \in hits : \A m \in hits : m <= k][2]

\* The loop over the dependencies of a task: a dependency that is a key of
\* id_mapping is replaced by the new id, any other is left out.
RECURSIVE new_dependencies(_, _, _)
new_dependencies(deps, k, pairs) ==
    IF k > Len(deps) THEN <<>>
    ELSE (IF id_mapping(pairs, deps[k]) # NoId THEN <<id_mapping(pairs, deps[k])>> ELSE <<>>)
         \o new_dependencies(deps, k + 1, pairs)

import_workflow(workflow_data) ==
    LET wid == nextId + 1
        old == workflow_data.tasks
        pairs == << <<workflow_data.id, wid>> >> \o IdPairs(old, 1, wid)
        tasks == [j \in 1..Len(old) |->
                    [old[j] EXCEPT
                       !.id = ImportedTaskId(old, j, wid),
                       !.approvals = [k \in 1..Len(old[j].approvals) |->
                                        [old[j].approvals[k] EXCEPT
                                           !.id = ImportedTaskId(old, j, wid) + k]],
                       !.dependencies = new_dependencies(old[j].dependencies, 1, pairs),
                       !.data = WorkflowAddr(wid, j)]]
        workflow == [workflow_data EXCEPT !.id = wid, !.tasks = tasks,
                                          !.participants = WorkflowAddr(wid, 0)]
        cells == {WorkflowAddr(wid, j) : j \in 0..Len(old)}
    IN  /\ heap' = [a \in DOMAIN heap \cup cells |->
                      IF a \in DOMAIN heap THEN heap[a]
                      ELSE IF a[3] = 0 THEN workflow_data.participants
                      ELSE old[a[3]].data]
        /\ nextId' = nextId + IdCount(old, 1)
        /\ IF "history" \in DOMAIN workflow_data
           THEN /\ workflows' = Put(workflows, wid,
                                    add_history_event(workflow, "workflow_imported",
                                                      workflow_data.id, <<>>))
                /\ last' = Call("import_workflow", wid, NoId, NoId, FALSE, TRUE, <<>>)
           ELSE \* the workflow is stored, then the append to its history raises
                /\ workflows' = Put(workflows, wid, workflow)
                /\ last' = Raised("import_workflow", NoId)
        /\ UNCHANGED <<workflow_templates, event_listeners, task_handlers>>

(***************************************************************************)
(* The engine with one workflow: every call a client can make on it.       *)
(***************************************************************************)
Next ==
    \/ \E t \in HandledTypes : register_task_handler(t)
    \/ \E t \in TemplateIds \cup {"missing"}, d \in Datas :
          Cardinality(DOMAIN workflows) < OneWorkflow /\ create_workflow(t, d)
    \/ \E w \in WorkflowIds : start_workflow(w)
    \/ \E w \in WorkflowIds : \E t \in TaskIds(w), res \in Results : complete_task(w, t, res)
    \/ \E w \in WorkflowIds : \E t \in TaskIds(w) : \E a \in ApprovalIds(w, t), b \in BOOLEAN :
          approve_task(w, t, a, b)
    \/ \E w \in WorkflowIds : \E t \in TaskIds(w) : \E a \in ApprovalIds(w, t), n \in NewApprovers :
          delegate_approval(w, t, a, n)
    \/ \E w \in WorkflowIds : \E t \in TaskIds(w), d \in Inputs : provide_input(w, t, d)
    \/ \E w \in WorkflowIds : cancel_workflow(w)
    \/ \E w \in WorkflowIds, p \in Participants : add_workflow_participant(w, p)
    \/ \E w \in WorkflowIds, p \in Participants : remove_workflow_participant(w, p)
    \/ \E sid \in SnapshotIds :
          Cardinality(DOMAIN workflows) < OneWorkflow /\ import_workflow(Snapshot(sid))

Spec == Init /\ [][Next]_vars

(***************************************************************************)
(* The engine with several workflows, which are created, run and changed   *)
(* side by side.                                                           *)
(***************************************************************************)
NextMulti ==
    \/ \E t \in TemplateIds \cup {"missing"}, d \in Datas :
          Cardinality(DOMAIN workflows) < MaxWorkflows /\ create_workflow(t, d)
    \/ \E w \in WorkflowIds : start_workflow(w)
    \/ \E w \in WorkflowIds : \E t \in TaskIds(w), res \in Results : complete_task(w, t, res)
    \/ \E w \in WorkflowIds : \E t \in TaskIds(w) : \E a \in ApprovalIds(w, t), b \in BOOLEAN :
          approve_task(w, t, a, b)
    \/ \E w \in WorkflowIds : \E t \in TaskIds(w) : \E a \in ApprovalIds(w, t), n \in NewApprovers :
          delegate_approval(w, t, a, n)

SpecMulti == Init /\ [][NextMulti]_vars

(***************************************************************************)
(* The engine with event listeners: a client registers listeners, some of  *)
(* which raise, and runs one workflow.                                     *)
(***************************************************************************)
NextListeners ==
    \/ \E t \in ListenedTypes, l \in Listeners : register_event_listener(t, l)
    \/ \E t \in HandledTypes : register_task_handler(t)
    \/ \E t \in TemplateIds, d \in Datas :
          Cardinality(DOMAIN workflows) < OneWorkflow /\ create_workflow(t, d)
    \/ \E w \in WorkflowIds : start_workflow(w)
    \/ \E w \in WorkflowIds : \E t \in TaskIds(w), res \in Results : complete_task(w, t, res)
    \/ \E w \in WorkflowIds : \E t \in TaskIds(w) : \E a \in ApprovalIds(w, t), b \in BOOLEAN :
          approve_task(w, t, a, b)
    \/ \E w \in WorkflowIds : cancel_workflow(w)

SpecListeners == Init /\ [][NextListeners]_vars

(***************************************************************************)
(* The engine with several workflows created from templates that come with *)
(* data dicts and a participants list, and the calls that write to these.  *)
(***************************************************************************)
SharedTemplates == {"gate", "inp"}

NextShared ==
    \/ \E t \in SharedTemplates, d \in Datas :
          Cardinality(DOMAIN workflows) < MaxWorkflows /\ create_workflow(t, d)
    \/ \E w \in WorkflowIds : start_workflow(w)
    \/ \E w \in WorkflowIds : \E t \in TaskIds(w), res \in Results : complete_task(w, t, res)
    \/ \E w \in WorkflowIds : \E t \in TaskIds(w) : \E a \in ApprovalIds(w, t), n \in NewApprovers :
          delegate_approval(w, t, a, n)
    \/ \E w \in WorkflowIds : \E t \in TaskIds(w), d \in Inputs : provide_input(w, t, d)
    \/ \E w \in WorkflowIds, p \in Participants : add_workflow_participant(w, p)
    \/ \E w \in WorkflowIds, p \in Participants : remove_workflow_participant(w, p)

SpecShared == Init /\ [][NextShared]_vars

(***************************************************************************)
(* The engine with a handler during whose invocation cancel_workflow takes *)
(* effect on the workflow of the task.                                     *)
(***************************************************************************)
NextInFlight ==
    \/ \E t \in HandledTypes \cup CancellingTypes : register_task_handler(t)
    \/ \E t \in RegisteredIds, d \in Datas :
          Cardinality(DOMAIN workflows) < OneWorkflow /\ create_workflow(t, d)
    \/ \E w \in WorkflowIds : start_workflow(w)
    \/ \E w \in WorkflowIds : \E t \in TaskIds(w), res \in Results : complete_task(w, t, res)
    \/ \E w \in WorkflowIds : \E t \in TaskIds(w) : \E a \in ApprovalIds(w, t), b \in BOOLEAN :
          approve_task(w, t, a, b)
    \/ \E w \in WorkflowIds : cancel_workflow(w)

SpecInFlight == Init /\ [][NextInFlight]_vars


(* from a hand-written snapshot, and whose further workflows are imported  *)
(* from the export of a workflow it holds.                                 *)
(***************************************************************************)
NextImport ==
    \/ \E t \in TemplateIds, d \in Datas :
          Cardinality(DOMAIN workflows) < OneWorkflow /\ create_workflow(t, d)
    \/ \E sid \in SnapshotIds :
          Cardinality(DOMAIN workflows) < OneWorkflow /\ import_workflow(Snapshot(sid))
    \/ \E w \in DOMAIN workflows :
          Cardinality(DOMAIN workflows) < MaxWorkflows /\ import_workflow(export_workflow(w))
    \/ \E w \in WorkflowIds : start_workflow(w)
    \/ \E w \in WorkflowIds : \E t \in TaskIds(w), res \in Results : complete_task(w, t, res)
    \/ \E w \in WorkflowIds : \E t \in TaskIds(w) : \E a \in ApprovalIds(w, t), b \in BOOLEAN :
          approve_task(w, t, a, b)
    \/ \E w \in WorkflowIds : cancel_workflow(w)

SpecImport == Init /\ [][NextImport]_vars

(***************************************************************************)
(* The engine into which a client imports hand-written snapshots, some of  *)
(* them incomplete, and runs the workflows that have a history.            *)
(***************************************************************************)
WithHistory ==
    LET ws == {w \in DOMAIN workflows : "history" \in DOMAIN workflows[w]}
    IN  IF ws = {} THEN {NoId} ELSE ws

NextIncomplete ==
    \/ \E sid \in SnapshotIds :
          Cardinality(DOMAIN workflows) < MaxWorkflows /\ import_workflow(Snapshot(sid))
    \/ \E sid \in SnapshotIds, f \in IncompleteFields :
          /\ Cardinality(DOMAIN workflows) < MaxWorkflows
          /\ import_workflow(IncompleteSnapshot(sid, f))
    \/ \E w \in WithHistory : start_workflow(w)
    \/ \E w \in WithHistory : \E t \in TaskIds(w), res \in Results : complete_task(w, t, res)
    \/ \E w \in WithHistory : cancel_workflow(w)

SpecIncomplete == Init /\ [][NextIncomplete]_vars

(***************************************************************************)
(* Properties.  A property of a call is a formula about the step that      *)
(* makes the call: the unprimed variables are the engine before the call,  *)
(* the primed ones the engine when the call has returned or raised.        *)
(***************************************************************************)
Returned(op) == last'.op = op /\ last'.ok
Refused(op) == last'.op = op /\ ~last'.ok

\* The events the call has appended to the history of workflow wid.
NewEvents(wid) ==
    SubSeq(workflows'[wid].history, Len(workflows[wid].history) + 1,
           Len(workflows'[wid].history))

Terminal == {COMPLETED, FAILED, CANCELLED}

\* The uuids of workflow w, and those of all workflows wfs.
IdsOf(w) ==
    {w.id} \cup {w.tasks[j].id : j \in 1..Len(w.tasks)}
           \cup UNION {{w.tasks[j].approvals[k].id : k \in 1..Len(w.tasks[j].approvals)} :
                       j \in 1..Len(w.tasks)}
EngineIds(wfs) == UNION {IdsOf(wfs[x]) : x \in DOMAIN wfs}

\* The ids a template's author has used in it.
TemplateRefs(T) ==
    UNION {{T.tasks[j].dependencies[k] : k \in 1..Len(T.tasks[j].dependencies)} :
           j \in 1..Len(T.tasks)}

\* The live approvals of a task: those that are not DELEGATED.
Live(task) == {k \in 1..Len(task.approvals) : task.approvals[k].status # DELEGATED}

\* C1: create_workflow on a registered template adds one workflow, CREATED
\* with cursor 0, with one PENDING task per task of the template in the
\* template's order and one PENDING approval per listed approver; the ids of
\* the workflow, its tasks and its approvals are pairwise distinct, and
\* distinct from every id the engine held before and from the template's.
C1_CreateWorkflow ==
    [][ Returned("create_workflow") =>
          LET wid == last'.wf
              w == workflows'[wid]
              T == workflow_templates[w.template_id]
          IN  /\ wid \notin DOMAIN workflows
              /\ DOMAIN workflows' = DOMAIN workflows \cup {wid}
              /\ \A x \in DOMAIN workflows : workflows'[x] = workflows[x]
              /\ w.id = wid
              /\ w.status = CREATED
              /\ w.current_task_index = 0
              /\ Len(w.tasks) = Len(T.tasks)
              /\ \A j \in 1..Len(w.tasks) :
                    /\ w.tasks[j].status = PENDING
                    /\ w.tasks[j].type = T.tasks[j].type
                    /\ Len(w.tasks[j].approvals) = Len(T.tasks[j].approvers)
                    /\ \A k \in 1..Len(w.tasks[j].approvals) :
                          /\ w.tasks[j].approvals[k].status = PENDING
                          /\ w.tasks[j].approvals[k].approver = T.tasks[j].approvers[k]
              /\ Cardinality(IdsOf(w)) = IdCount(w.tasks, 1)
              /\ IdsOf(w) \cap EngineIds(workflows) = {}
              /\ IdsOf(w) \cap TemplateRefs(T) = {}
      ]_vars

\* A second workflow with approvals has been created, after an approval of
\* the first one was delegated.
C1_Witness ==
    /\ last.op = "create_workflow" /\ last.ok
    /\ Cardinality(DOMAIN workflows) = MaxWorkflows
    /\ workflows[last.wf].template_id = "gate"
    /\ \E x \in DOMAIN workflows :
          x # last.wf /\ EventCount(workflows[x].history, {"approval_delegated"}) > 0

\* The call has processed position c (a cursor value) of workflow w2 exactly
\* once: right after its first event it has either started the task at c,
\* or found its dependencies unmet, or found no task left and completed the
\* workflow; and it has done none of these a second time.
ProcessedOnce(w2, new, c) ==
    /\ Len(new) >= 2
    /\ IF c >= Len(w2.tasks)
       THEN /\ new[2] = Event("workflow_completed", NoId, <<>>)
            /\ EventCount(new, {"workflow_completed"}) = 1
            /\ w2.status = COMPLETED
       ELSE /\ \/ new[2] = Event("task_started", w2.tasks[c + 1].id, <<>>)
               \/ new[2] = Event("workflow_waiting", NoId, <<DepsNotMet>>)
            /\ Cardinality({k \in 1..Len(new) :
                              \/ new[k] = Event("task_started", w2.tasks[c + 1].id, <<>>)
                              \/ /\ new[k].type = "workflow_waiting"
                                 /\ w2.current_task_index = c}) = 1

\* C2, as stated: approving while another live approval stays PENDING
\* leaves the task WAITING_APPROVAL and the cursor unchanged; when the call
\* returns that makes every live approval APPROVED, the cursor is exactly
\* one further than before the call and the next task (or the completion of
\* the workflow) has been processed exactly once.
C2_CursorOneFurther ==
    [][ (Returned("approve_task") /\ last'.flag) =>
          LET w == workflows[last'.wf]
              w2 == workflows'[last'.wf]
              i == FindTask(w, last'.task)
              task2 == w2.tasks[i]
          IN  /\ (\E k \in Live(task2) : task2.approvals[k].status = PENDING) =>
                    /\ task2.status = WAITING_APPROVAL
                    /\ w2.current_task_index = w.current_task_index
              /\ (\A k \in Live(task2) : task2.approvals[k].status = APPROVED) =>
                    /\ w2.current_task_index = w.current_task_index + 1
                    /\ ProcessedOnce(w2, NewEvents(last'.wf), i)
      ]_vars

\* The tasks the call has completed and left without an approval gate, each
\* of which moves the cursor one further.
CompletedInCall(w2, new) ==
    Cardinality({k \in 1..Len(new) :
                   /\ new[k].type = "task_completed"
                   /\ w2.tasks[FindTask(w2, new[k].ref)].approvers = <<>>})

\* C2, amended: an approve_task call with approved = True that leaves
\* another live approval of the task PENDING leaves the task
\* WAITING_APPROVAL and the cursor where it was.  The call that makes every
\* live approval APPROVED moves the cursor past the task, by exactly one,
\* and processes the next task (or the completion of the workflow) exactly
\* once; when that next task is completed by its handler within the same
\* call, the cursor moves one further for every task so completed.
C2_UnanimousApproval ==
    [][ (Returned("approve_task") /\ last'.flag) =>
          LET w == workflows[last'.wf]
              w2 == workflows'[last'.wf]
              i == FindTask(w, last'.task)
              task2 == w2.tasks[i]
              new == NewEvents(last'.wf)
          IN  /\ w.tasks[i].status = WAITING_APPROVAL
              /\ (\E k \in Live(task2) : task2.approvals[k].status = PENDING) =>
                    /\ task2.status = WAITING_APPROVAL
                    /\ w2.current_task_index = w.current_task_index
                    /\ w2.status = w.status
                    /\ Len(new) = 1
              /\ (\A k \in Live(task2) : task2.approvals[k].status = APPROVED) =>
                    /\ w.current_task_index = i - 1
                    /\ w2.current_task_index = i + CompletedInCall(w2, new)
                    /\ CompletedInCall(w2, new) = 0 =>
                          w2.current_task_index = w.current_task_index + 1
                    /\ ProcessedOnce(w2, new, i)
      ]_vars

\* Approvers A and B have both approved, B first, and the workflow has gone
\* on to its next task.
C2_Witness ==
    /\ last.op = "approve_task" /\ last.ok /\ last.flag
    /\ workflows[last.wf].template_id = "gate"
    /\ LET task == workflows[last.wf].tasks[1]
       IN  /\ Len(task.approvals) = 2
           /\ \A k \in 1..2 : task.approvals[k].status = APPROVED
           /\ task.approvals[1].id = last.appr
    /\ workflows[last.wf].current_task_index = 2
    /\ workflows[last.wf].status = COMPLETED

\* C3, as stated: whenever an approval is rejected, the task and its
\* workflow are FAILED when the call returns, whatever the other approvals.
C3_RejectionFailsAtOnce ==
    [][ (Returned("approve_task") /\ ~last'.flag) =>
          LET w2 == workflows'[last'.wf]
          IN  /\ w2.tasks[FindTask(w2, last'.task)].status = FAILED
              /\ w2.status = FAILED
      ]_vars

\* C3, amended: a rejection is recorded as REJECTED.  The approve_task call
\* (approving or rejecting) that leaves no approval of the task PENDING
\* fails the task and its workflow if any approval of the task is REJECTED,
\* and leaves the cursor where it was.  While an approval of the task is
\* still PENDING the task stays WAITING_APPROVAL and neither the workflow's
\* status nor its cursor changes.
C3_RejectionFailsAtConsensus ==
    [][ Returned("approve_task") =>
          LET w == workflows[last'.wf]
              w2 == workflows'[last'.wf]
              i == FindTask(w, last'.task)
              task2 == w2.tasks[i]
              a == FindApproval(task2, last'.appr)
              pending == \E k \in 1..Len(task2.approvals) :
                            task2.approvals[k].status = PENDING
              rejected == \E k \in 1..Len(task2.approvals) :
                             task2.approvals[k].status = REJECTED
              new == NewEvents(last'.wf)
          IN  /\ ~last'.flag => task2.approvals[a].status = REJECTED
              /\ (~pending /\ rejected) =>
                    /\ task2.status = FAILED
                    /\ w2.status = FAILED
                    /\ w2.current_task_index = w.current_task_index
                    /\ Len(new) = 3
                    /\ new[2] = Event("task_failed", last'.task, <<Rejected>>)
                    /\ new[3] = Event("workflow_failed", NoId, <<TaskFailed>>)
              /\ pending =>
                    /\ task2.status = WAITING_APPROVAL
                    /\ w2.status = w.status
                    /\ w2.current_task_index = w.current_task_index
                    /\ Len(new) = 1
      ]_vars

\* Approver A has rejected while B was PENDING and nothing failed; then B
\* has approved, and that call has failed the task and the workflow.
C3_Witness ==
    /\ last.op = "approve_task" /\ last.ok /\ last.flag
    /\ workflows[last.wf].status = FAILED
    /\ LET w == workflows[last.wf]
           task == w.tasks[FindTask(w, last.task)]
       IN  /\ task.status = FAILED
           /\ Len(task.approvals) = 2
           /\ task.approvals[1].status = REJECTED
           /\ task.approvals[2].status = APPROVED
           /\ w.history[Len(w.history) - 3].type = "task_rejected"

\* C4: delegate_approval turns the PENDING approval into DELEGATED, appends
\* exactly one PENDING approval for the new approver and leaves the task
\* WAITING_APPROVAL and the cursor where it was.  Consensus ignores a
\* DELEGATED approval: an approve_task call moves the cursor exactly when it
\* leaves every live approval APPROVED, so never while the new approver's
\* approval is PENDING, and always once the live ones are all APPROVED even
\* though a DELEGATED one remains.
C4_Delegation ==
    [][ /\ Returned("delegate_approval") =>
          LET w == workflows[last'.wf]
              w2 == workflows'[last'.wf]
              i == FindTask(w, last'.task)
              old == w.tasks[i].approvals
              now == w2.tasks[i].approvals
              a == FindApproval(w.tasks[i], last'.appr)
          IN  /\ old[a].status = PENDING
              /\ Len(now) = Len(old) + 1
              /\ now[a] = [old[a] EXCEPT !.status = DELEGATED]
              /\ \A k \in 1..Len(old) : k # a => now[k] = old[k]
              /\ now[Len(now)].status = PENDING
              /\ now[Len(now)].id \notin EngineIds(workflows)
              /\ w2.tasks[i].status = WAITING_APPROVAL
              /\ w2.current_task_index = w.current_task_index
              /\ w2.status = w.status
              /\ Len(NewEvents(last'.wf)) = 1
              /\ NewEvents(last'.wf)[1] =
                    Event("approval_delegated", last'.task,
                          <<old[a].approver, now[Len(now)].approver>>)
        /\ Returned("approve_task") =>
          LET w == workflows[last'.wf]
              w2 == workflows'[last'.wf]
              task2 == w2.tasks[FindTask(w, last'.task)]
          IN  /\ (\E k \in Live(task2) : task2.approvals[k].status = PENDING) =>
                    /\ task2.status = WAITING_APPROVAL
                    /\ w2.current_task_index = w.current_task_index
              /\ (\A k \in Live(task2) : task2.approvals[k].status = APPROVED) =>
                    w2.current_task_index > w.current_task_index
      ]_vars

\* A's approval was delegated to C; B and then C have approved, and the
\* cursor has moved past the task although A's approval is DELEGATED.
C4_Witness ==
    /\ last.op = "approve_task" /\ last.ok /\ last.flag
    /\ LET w == workflows[last.wf]
           task == w.tasks[FindTask(w, last.task)]
       IN  /\ Len(task.approvals) = 3
           /\ task.approvals[1].status = DELEGATED
           /\ task.approvals[2].status = APPROVED
           /\ task.approvals[3].status = APPROVED
           /\ task.approvals[3].approver = "C"
           /\ task.approvals[3].id = last.appr
           /\ w.current_task_index = FindTask(w, last.task)

\* C5: COMPLETED, FAILED and CANCELLED are absorbing: no call of the engine
\* changes the status or the cursor of a workflow that has one of them.
C5_TerminalAbsorbing ==
    [][ \A wid \in DOMAIN workflows :
          workflows[wid].status \in Terminal =>
            /\ wid \in DOMAIN workflows'
            /\ workflows'[wid].status = workflows[wid].status
            /\ workflows'[wid].current_task_index = workflows[wid].current_task_index
      ]_vars

\* A FAILED workflow has taken a participant since it failed, and a
\* cancel_workflow on it has just been refused.
C5_Witness ==
    /\ last.op = "cancel_workflow" /\ ~last.ok
    /\ last.wf \in DOMAIN workflows
    /\ LET w == workflows[last.wf]
       IN  /\ w.status = FAILED
           /\ w.history[Len(w.history)].type = "participant_added"
           /\ w.history[Len(w.history) - 1].type = "workflow_failed"

\* task_started and task_completed of tasks j, j + 1, ... in this order.
RECURSIVE StartedCompleted(_, _)
StartedCompleted(tasks, j) ==
    IF j > Len(tasks) THEN <<>>
    ELSE << Event("task_started", tasks[j].id, <<>>),
            Event("task_completed", tasks[j].id, <<>>) >> \o StartedCompleted(tasks, j + 1)

\* C6: when no task of a workflow has approvers or dependencies, the types
\* of all its tasks have handlers and every handler invocation returns, one
\* start_workflow call ends with the workflow and every task COMPLETED, the
\* cursor at the number of tasks, one handler invocation per task, and has
\* appended workflow_started, then task_started and task_completed once per
\* task in task order, then workflow_completed as the last event; the
\* history held no such task or completion event before.
C6_SequentialRun ==
    [][ ( /\ Returned("start_workflow")
          /\ \A j \in 1..Len(workflows[last'.wf].tasks) :
                LET task == workflows[last'.wf].tasks[j]
                IN  /\ task.approvers = <<>>
                    /\ task.dependencies = <<>>
                    /\ task.type \in task_handlers
          /\ \A k \in 1..Len(last'.calls) : last'.calls[k].out = Ok ) =>
          LET w == workflows[last'.wf]
              w2 == workflows'[last'.wf]
              n == Len(w.tasks)
          IN  /\ w2.status = COMPLETED
              /\ Len(w2.tasks) = n
              /\ \A j \in 1..n : w2.tasks[j].status = COMPLETED
              /\ w2.current_task_index = n
              /\ last'.calls = [j \in 1..n |-> [task |-> w.tasks[j].id, out |-> Ok]]
              /\ EventCount(w.history,
                            {"task_started", "task_completed", "workflow_completed"}) = 0
              /\ NewEvents(last'.wf) = << Event("workflow_started", NoId, <<>>) >>
                                       \o StartedCompleted(w.tasks, 1)
                                       \o << Event("workflow_completed", NoId, <<>>) >>
      ]_vars

\* start_workflow has run the sequential template to its end.
C6_Witness ==
    /\ last.op = "start_workflow" /\ last.ok
    /\ Len(last.calls) = MaxSeqLen
    /\ workflows[last.wf].template_id = "seq"
    /\ workflows[last.wf].status = COMPLETED
    /\ workflows[last.wf].current_task_index = MaxSeqLen

\* C7: when a handler raises, the call that invoked it returns normally;
\* the task and its workflow are FAILED; the last two events of the history
\* are task_failed with the message of the exception and workflow_failed;
\* the cursor is at the failed task; every later task is PENDING, has not
\* been started and its handler has not been invoked.
C7_HandlerFailure ==
    [][ \A k \in 1..Len(last'.calls) :
          last'.calls[k].out # Ok =>
            LET w == workflows[last'.wf]
                w2 == workflows'[last'.wf]
                i == FindTask(w2, last'.calls[k].task)
                h == w2.history
                n == Len(h)
            IN  /\ last'.ok
                /\ k = Len(last'.calls)
                /\ w2.tasks[i].status = FAILED
                /\ w2.status = FAILED
                /\ h[n - 1] = Event("task_failed", w2.tasks[i].id, <<last'.calls[k].out>>)
                /\ h[n] = Event("workflow_failed", NoId, <<TaskFailed>>)
                /\ w2.current_task_index = i - 1
                /\ \A j \in (i + 1)..Len(w2.tasks) :
                      /\ w2.tasks[j].status = PENDING
                      /\ \A e \in 1..n : h[e].ref # w2.tasks[j].id
      ]_vars

\* The handler of the second task of a sequential workflow has raised.
C7_Witness ==
    /\ last.op = "start_workflow" /\ last.ok
    /\ Len(last.calls) = 2
    /\ last.calls[2].out = HandlerError
    /\ workflows[last.wf].status = FAILED
    /\ workflows[last.wf].tasks[1].status = COMPLETED
    /\ workflows[last.wf].tasks[2].status = FAILED
    /\ workflows[last.wf].tasks[3].status = PENDING

\* C8: start_workflow returns only for a workflow that is CREATED, and
\* leaves it in another status; no call makes a workflow CREATED again, so
\* a second start_workflow is refused whatever the first one led to, and so
\* is one on a CANCELLED workflow; a refused start_workflow changes nothing.
C8_StartOnlyCreated ==
    [][ /\ Returned("start_workflow") =>
              /\ last'.wf \in DOMAIN workflows
              /\ workflows[last'.wf].status = CREATED
              /\ workflows'[last'.wf].status # CREATED
        /\ Refused("start_workflow") =>
              /\ workflows' = workflows
              /\ heap' = heap
              /\ last'.wf \in DOMAIN workflows => workflows[last'.wf].status # CREATED
        /\ \A wid \in DOMAIN workflows :
              /\ workflows[wid].status # CREATED => workflows'[wid].status # CREATED
              /\ (last'.op = "start_workflow" /\ last'.wf = wid
                    /\ (workflows[wid].status = CANCELLED
                          \/ EventCount(workflows[wid].history, {"workflow_started"}) > 0))
                 => ~last'.ok
      ]_vars

\* A workflow was started and then cancelled, and a second start_workflow
\* on it has just been refused.
C8_Witness ==
    /\ last.op = "start_workflow" /\ ~last.ok
    /\ last.wf \in DOMAIN workflows
    /\ workflows[last.wf].status = CANCELLED
    /\ EventCount(workflows[last.wf].history, {"workflow_started"}) = 1

\* C9: cancel_workflow returns only for a workflow that is not COMPLETED,
\* FAILED or CANCELLED; it makes the workflow CANCELLED, makes every task
\* that is PENDING, RUNNING, WAITING_INPUT or WAITING_APPROVAL CANCELLED and
\* changes no other task, and appends one workflow_cancelled event.  On a
\* CANCELLED workflow no complete_task, provide_input, approve_task,
\* delegate_approval or start_workflow returns.  A refused cancel_workflow
\* changes nothing.
C9_Cancel ==
    [][ /\ Returned("cancel_workflow") =>
              LET w == workflows[last'.wf]
                  w2 == workflows'[last'.wf]
              IN  /\ w.status \notin Terminal
                  /\ w2.status = CANCELLED
                  /\ Len(w2.tasks) = Len(w.tasks)
                  /\ \A j \in 1..Len(w.tasks) :
                        w2.tasks[j] =
                          IF w.tasks[j].status \in
                               {PENDING, RUNNING, WAITING_INPUT, WAITING_APPROVAL}
                          THEN [w.tasks[j] EXCEPT !.status = CANCELLED]
                          ELSE w.tasks[j]
                  /\ NewEvents(last'.wf) = << Event("workflow_cancelled", NoId, <<>>) >>
                  /\ w2.current_task_index = w.current_task_index
        /\ Refused("cancel_workflow") =>
              /\ workflows' = workflows
              /\ heap' = heap
              /\ last'.wf \in DOMAIN workflows => workflows[last'.wf].status \in Terminal
        /\ \A wid \in DOMAIN workflows :
              /\ (workflows[wid].status \in Terminal
                    /\ last'.op = "cancel_workflow" /\ last'.wf = wid) => ~last'.ok
              /\ (workflows[wid].status = CANCELLED /\ last'.wf = wid
                    /\ last'.op \in {"complete_task", "provide_input", "approve_task",
                                     "delegate_approval", "start_workflow"})
                 => (~last'.ok /\ workflows' = workflows)
      ]_vars

\* A workflow was cancelled while a task was waiting for approval, and an
\* approve_task on it has just been refused.
C9_Witness ==
    /\ last.op = "approve_task" /\ ~last.ok
    /\ last.wf \in DOMAIN workflows
    /\ LET w == workflows[last.wf]
       IN  /\ w.status = CANCELLED
           /\ w.history[Len(w.history)].type = "workflow_cancelled"
           /\ w.history[Len(w.history) - 1].type = "task_waiting_approval"
           /\ w.tasks[1].status = CANCELLED
           /\ \E k \in 1..Len(w.tasks[1].approvals) : w.tasks[1].approvals[k].status = PENDING

\* C10: cancel_workflow keeps the status and the result of every task that
\* was finished before it: a COMPLETED task, and a task behind the cursor
\* whose live approvals are all APPROVED.
C10_CancelKeepsFinishedWork ==
    [][ Returned("cancel_workflow") =>
          LET w == workflows[last'.wf]
              w2 == workflows'[last'.wf]
          IN  \A j \in 1..Len(w.tasks) :
                ( \/ w.tasks[j].status = COMPLETED
                  \/ /\ j <= w.current_task_index
                     /\ w.tasks[j].approvals # <<>>
                     /\ \A k \in Live(w.tasks[j]) : w.tasks[j].approvals[k].status = APPROVED )
                => /\ w2.tasks[j].status = w.tasks[j].status
                   /\ w2.tasks[j].result = w.tasks[j].result
      ]_vars

\* C11: a complete_task call that returns stores the result and appends
\* task_completed first.  For a task without approvers the task is
\* COMPLETED, the cursor is set to the position after the task and the next
\* task (or the completion of the workflow) is processed once from there;
\* the cursor is one further for every later task completed in the same
\* call.  For a task with approvers the task is WAITING_APPROVAL, the cursor
\* and every later task are unchanged, no handler is invoked, and the only
\* other event is task_waiting_approval with the approvers.
C11_CompleteTask ==
    [][ Returned("complete_task") =>
          LET w == workflows[last'.wf]
              w2 == workflows'[last'.wf]
              i == FindTask(w, last'.task)
              task == w.tasks[i]
              task2 == w2.tasks[i]
              new == NewEvents(last'.wf)
          IN  /\ task.result = None
              /\ task2.result \in Results
              /\ Len(new) >= 1
              /\ new[1] = Event("task_completed", task.id, <<>>)
              /\ task.approvers = <<>> =>
                    /\ task2.status = COMPLETED
                    /\ w.current_task_index = i - 1
                    /\ w2.current_task_index = i - 1 + CompletedInCall(w2, new)
                    /\ ProcessedOnce(w2, new, i)
              /\ task.approvers # <<>> =>
                    /\ task2.status = WAITING_APPROVAL
                    /\ w2.current_task_index = w.current_task_index
                    /\ w2.status = w.status
                    /\ \A j \in (i + 1)..Len(w.tasks) : w2.tasks[j] = w.tasks[j]
                    /\ last'.calls = <<>>
                    /\ new = << Event("task_completed", task.id, <<>>),
                                Event("task_waiting_approval", task.id, task.approvers) >>
      ]_vars

\* A manual task without approvers has been completed by its caller; the
\* handler has completed the next task, and the third one waits for its
\* approver.
C11_Witness ==
    /\ last.op = "complete_task" /\ last.ok
    /\ LET w == workflows[last.wf]
       IN  /\ w.template_id = "man"
           /\ w.tasks[1].id = last.task
           /\ w.tasks[1].status = COMPLETED
           /\ w.tasks[2].status = COMPLETED
           /\ w.tasks[3].status = WAITING_APPROVAL
           /\ w.current_task_index = 2

\* C12: complete_task returns only for a task that is RUNNING or
\* WAITING_INPUT and that has not been completed before, so a task is
\* completed at most once; a refused complete_task changes nothing.
C12_CompleteTaskRefused ==
    [][ /\ Returned("complete_task") =>
              LET w == workflows[last'.wf]
                  i == FindTask(w, last'.task)
              IN  /\ i # 0
                  /\ w.tasks[i].status \in {RUNNING, WAITING_INPUT}
                  /\ \A e \in 1..Len(w.history) :
                        w.history[e] # Event("task_completed", last'.task, <<>>)
        /\ Refused("complete_task") =>
              /\ workflows' = workflows
              /\ heap' = heap
              /\ nextId' = nextId
              /\ last'.wf \in DOMAIN workflows =>
                    \E j \in 1..Len(workflows[last'.wf].tasks) :
                       workflows[last'.wf].tasks[j].status \notin {RUNNING, WAITING_INPUT}
      ]_vars

\* complete_task has been refused on a running workflow whose first task
\* was completed by an earlier complete_task and now waits for approval.
C12_Witness ==
    /\ last.op = "complete_task" /\ ~last.ok
    /\ last.wf \in DOMAIN workflows
    /\ LET w == workflows[last.wf]
       IN  /\ w.tasks[1].status = WAITING_APPROVAL
           /\ w.tasks[1].result \in Results
           /\ w.status = RUNNING

\* C13: approve_task and delegate_approval return only for a task in
\* WAITING_APPROVAL and an approval that is PENDING; an approval that is
\* APPROVED, REJECTED or DELEGATED keeps its status in every call; a
\* refused approve_task or delegate_approval changes nothing.
C13_ApprovalResolvedOnce ==
    [][ /\ (Returned("approve_task") \/ Returned("delegate_approval")) =>
              LET w == workflows[last'.wf]
                  i == FindTask(w, last'.task)
                  a == FindApproval(w.tasks[i], last'.appr)
              IN  /\ i # 0 /\ a # 0
                  /\ w.tasks[i].status = WAITING_APPROVAL
                  /\ w.tasks[i].approvals[a].status = PENDING
                  /\ workflows'[last'.wf].tasks[i].approvals[a].status # PENDING
        /\ (Refused("approve_task") \/ Refused("delegate_approval")) =>
              /\ workflows' = workflows
              /\ heap' = heap
              /\ nextId' = nextId
        /\ \A wid \in DOMAIN workflows :
              \A j \in 1..Len(workflows[wid].tasks) :
                 \A k \in 1..Len(workflows[wid].tasks[j].approvals) :
                    workflows[wid].tasks[j].approvals[k].status # PENDING =>
                       /\ Len(workflows'[wid].tasks[j].approvals) >= k
                       /\ workflows'[wid].tasks[j].approvals[k] =
                             workflows[wid].tasks[j].approvals[k]
      ]_vars

\* delegate_approval has been refused on a task that waits for approval
\* with one approval APPROVED and the other DELEGATED.
C13_Witness ==
    /\ last.op = "delegate_approval" /\ ~last.ok
    /\ last.wf \in DOMAIN workflows
    /\ LET task == workflows[last.wf].tasks[1]
       IN  /\ task.status = WAITING_APPROVAL
           /\ Len(task.approvals) = 3
           /\ task.approvals[1].status = APPROVED
           /\ task.approvals[2].status = DELEGATED
           /\ task.approvals[3].status = PENDING

\* Task j of workflow w lists task i of w as a dependency.
Lists(w, j, i) ==
    \E k \in 1..Len(w.tasks[j].dependencies) : w.tasks[j].dependencies[k] = w.tasks[i].id

\* C14: import_workflow(export_workflow(W)) registers a new workflow and
\* leaves W and every other workflow as they were; the new workflow has as
\* many tasks as W, of the same types in the same order, and as many
\* approvals per task; its ids (workflow, tasks, approvals) are pairwise
\* distinct and none of them is an id of W or of any workflow held before;
\* its task j lists its task i as a dependency exactly when task j of W
\* lists task i of W.
C14_ExportImport ==
    [][ (Returned("import_workflow") /\ workflows'[last'.wf].history # <<>>) =>
          LET n == last'.wf
              w2 == workflows'[n]
              orig == w2.history[Len(w2.history)].ref
          IN  orig \in DOMAIN workflows =>
                LET w == workflows[orig]
                IN  /\ n \notin DOMAIN workflows
                    /\ DOMAIN workflows' = DOMAIN workflows \cup {n}
                    /\ \A x \in DOMAIN workflows : workflows'[x] = workflows[x]
                    /\ w2.id = n
                    /\ Len(w2.tasks) = Len(w.tasks)
                    /\ \A j \in 1..Len(w.tasks) :
                          /\ w2.tasks[j].type = w.tasks[j].type
                          /\ Len(w2.tasks[j].approvals) = Len(w.tasks[j].approvals)
                    /\ Cardinality(IdsOf(w2)) = IdCount(w2.tasks, 1)
                    /\ IdsOf(w2) \cap EngineIds(workflows) = {}
                    /\ \A j, i \in 1..Len(w.tasks) : Lists(w2, j, i) <=> Lists(w, j, i)
      ]_vars

\* A workflow whose second task lists its third task as a dependency, and
\* which is WAITING for it, has been exported and imported: the new
\* workflow's second task lists the new third task.
C14_Witness ==
    /\ last.op = "import_workflow" /\ last.ok
    /\ Cardinality(DOMAIN workflows) = MaxWorkflows
    /\ LET w2 == workflows[last.wf]
           orig == w2.history[Len(w2.history)].ref
       IN  /\ orig \in DOMAIN workflows
           /\ workflows[orig].status = WAITING
           /\ Len(workflows[orig].tasks) = 3
           /\ Lists(workflows[orig], 2, 3)
           /\ Lists(w2, 2, 3)
           /\ w2.tasks[3].id # workflows[orig].tasks[3].id

\* The task at the cursor of workflow w lists a task that comes after it.
AtTaskWaitingForLater(w) ==
    /\ w.current_task_index < Len(w.tasks)
    /\ \E c \in (w.current_task_index + 2)..Len(w.tasks) :
          Lists(w, w.current_task_index + 1, c)

\* C15: when the cursor reaches a task B that lists a later task C as a
\* dependency, the call that brings it there leaves the workflow WAITING
\* with B PENDING; from then on every call other than a cancel_workflow of
\* that workflow leaves it WAITING, the cursor at B and B PENDING.
C15_WaitingForLaterTask ==
    [][ \A wid \in DOMAIN workflows :
          LET w == workflows[wid]
              w2 == workflows'[wid]
              B == w2.tasks[w2.current_task_index + 1]
          IN  /\ ( /\ AtTaskWaitingForLater(w2)
                   /\ w2.status # CREATED
                   /\ w.status = CREATED \/ w.current_task_index # w2.current_task_index )
                 => (w2.status = WAITING /\ B.status = PENDING)
              /\ ( /\ AtTaskWaitingForLater(w)
                   /\ w.status = WAITING
                   /\ ~(Returned("cancel_workflow") /\ last'.wf = wid) )
                 => /\ w2.status = WAITING
                    /\ w2.current_task_index = w.current_task_index
                    /\ B.status = PENDING
      ]_vars

\* The first task was completed, the cursor has reached the second, which
\* lists the third, and the workflow is WAITING; since then a participant
\* was added and a complete_task was refused.
C15_Witness ==
    /\ last.op = "complete_task" /\ ~last.ok
    /\ last.wf \in DOMAIN workflows
    /\ LET w == workflows[last.wf]
       IN  /\ AtTaskWaitingForLater(w)
           /\ w.status = WAITING
           /\ w.current_task_index = 1
           /\ w.tasks[1].status = COMPLETED
           /\ w.tasks[2].status = PENDING
           /\ w.history[Len(w.history)].type = "participant_added"
           /\ w.history[Len(w.history) - 1].type = "workflow_waiting"

\* The listeners invoked for the k-th event of events, as heard records them,
\* in the order of invocation.
HeardFor(heard, events, k) ==
    LET IsFor(x) == x.event = events[k]
        hits == SelectSeq(heard, IsFor)
    IN  [m \in 1..Len(hits) |-> hits[m].listener]

\* C16: when a call publishes an event for whose type a raising listener is
\* registered, the exception does not reach the caller (the call returns);
\* for every event the call publishes, every listener registered for its
\* type is invoked, the raising ones and those registered after them
\* included, in the order of registration, and the invocations follow the
\* order in which the events are published; the listeners registered are
\* the same after the call, and the history has grown by exactly the events
\* published.
C16_ListenerRaises ==
    [][ \A wid \in DOMAIN workflows' :
          LET P == Published(wid)
              heard == last'.heard
          IN  ( /\ last'.wf = wid
                /\ workflows' # workflows
                /\ \E k \in 1..Len(P) : \E m \in 1..Len(RegisteredFor(P[k].type)) :
                      RegisteredFor(P[k].type)[m] \in Raising )
              => /\ last'.ok
                 /\ \A k \in 1..Len(P) : HeardFor(heard, P, k) = RegisteredFor(P[k].type)
                 /\ \A a, b \in 1..Len(heard) :
                       a < b => \E k, m \in 1..Len(P) :
                                  k <= m /\ heard[a].event = P[k] /\ heard[b].event = P[m]
                 /\ event_listeners' = event_listeners
                 /\ wid \in DOMAIN workflows =>
                       workflows'[wid].history = workflows[wid].history \o P
      ]_vars

\* Listeners l2, l1, l3 are registered for task_completed in this order, l1
\* raising; a start_workflow has run three automatic tasks to the end, and
\* for each task_completed all three listeners were invoked.
C16_Witness ==
    /\ last.op = "start_workflow" /\ last.ok
    /\ workflows[last.wf].status = COMPLETED
    /\ Len(workflows[last.wf].tasks) = 3
    /\ RegisteredFor("task_completed") = <<"l2", "l1", "l3">>
    /\ Len(last.heard) = 9
    /\ last.heard[9].listener = "l3"
    /\ last.heard[9].event.type = "task_completed"
    /\ last.heard[9].event.ref = workflows[last.wf].tasks[3].id

\* The statuses of workflow w and of its tasks.
Statuses(w) ==
    [workflow |-> w.status, tasks |-> [j \in 1..Len(w.tasks) |-> w.tasks[j].status]]

\* The status of the workflow, and of the task it is about, that an event
\* of the history goes with.
WorkflowEventStatus ==
    ("workflow_started" :> RUNNING) @@ ("workflow_waiting" :> WAITING) @@
    ("workflow_completed" :> COMPLETED) @@ ("workflow_failed" :> FAILED) @@
    ("workflow_cancelled" :> CANCELLED)
TaskEventStatus ==
    ("task_started" :> RUNNING) @@ ("task_completed" :> COMPLETED) @@
    ("task_waiting_approval" :> WAITING_APPROVAL) @@
    ("task_waiting_input" :> WAITING_INPUT) @@ ("input_provided" :> RUNNING) @@
    ("task_failed" :> FAILED)

\* The statuses st after the status change that event e goes with: a
\* workflow event goes with a change of the workflow's status,
\* workflow_cancelled also with the cancellation of every task that is not
\* finished, a task event with a change of the status of its task, and any
\* other event with no change of status.
StatusesAfter(st, w, e) ==
    IF e.type \in DOMAIN WorkflowEventStatus
    THEN [workflow |-> WorkflowEventStatus[e.type],
          tasks |-> [j \in DOMAIN st.tasks |->
                       IF /\ e.type = "workflow_cancelled"
                          /\ st.tasks[j] \in {PENDING, RUNNING, WAITING_APPROVAL, WAITING_INPUT}
                       THEN CANCELLED ELSE st.tasks[j]]]
    ELSE IF e.type \in DOMAIN TaskEventStatus
    THEN [st EXCEPT !.tasks[FindTask(w, e.ref)] = TaskEventStatus[e.type]]
    ELSE st

\* The statuses st after the changes that the events from the k-th on go
\* with, one after the other.
RECURSIVE Replay(_, _, _, _)
Replay(st, w, events, k) ==
    IF k > Len(events) THEN st
    ELSE Replay(StatusesAfter(st, w, events[k]), w, events, k + 1)

\* C17: no call removes a workflow, and the history of a workflow before a
\* call is a prefix of its history after the call.  Every change of the
\* status of the workflow or of one of its tasks goes with an event that the
\* call appends, in the order of the changes: the statuses after the call
\* are those before it with the changes of the appended events applied one
\* after the other, so a call that appends no event changes no status.
C17_HistoryAppendOnly ==
    [][ \A wid \in DOMAIN workflows :
          /\ wid \in DOMAIN workflows'
          /\ LET w == workflows[wid]
                 w2 == workflows'[wid]
             IN  /\ Len(w2.history) >= Len(w.history)
                 /\ SubSeq(w2.history, 1, Len(w.history)) = w.history
                 /\ Statuses(w2) = Replay(Statuses(w), w, NewEvents(wid), 1)
      ]_vars

\* An approval was rejected and the call has failed the task and the
\* workflow: the history has grown by task_rejected, task_failed and
\* workflow_failed, after an earlier delegation and participant event.
C17_Witness ==
    /\ last.op = "approve_task" /\ last.ok /\ ~last.flag
    /\ LET w == workflows[last.wf]
           n == Len(w.history)
       IN  /\ w.status = FAILED
           /\ n >= 3
           /\ w.history[n].type = "workflow_failed"
           /\ w.history[n - 1].type = "task_failed"
           /\ w.history[n - 2].type = "task_rejected"
           /\ EventCount(w.history, {"approval_delegated"}) > 0
           /\ EventCount(w.history, {"participant_added"}) > 0

\* C18: whenever the cursor is past a task that has approvers, whatever its
\* type, the task has been WAITING_APPROVAL (the history holds its
\* task_waiting_approval event) and every one of its approvals that is not
\* DELEGATED is APPROVED.
C18_ApprovalGate ==
    \A wid \in DOMAIN workflows :
      LET w == workflows[wid]
      IN  \A j \in 1..Len(w.tasks) :
            (j <= w.current_task_index /\ w.tasks[j].approvers # <<>>) =>
              /\ \E e \in 1..Len(w.history) :
                    /\ w.history[e].type = "task_waiting_approval"
                    /\ w.history[e].ref = w.tasks[j].id
              /\ Live(w.tasks[j]) # {}
              /\ \A k \in Live(w.tasks[j]) : w.tasks[j].approvals[k].status = APPROVED

\* The cursor is past an automatic task with an approver, which its handler
\* had completed, and past two tasks without approvers before it.
C18_Witness ==
    \E wid \in DOMAIN workflows :
      LET w == workflows[wid]
      IN  /\ w.current_task_index = 3
          /\ w.tasks[3].type = "auto"
          /\ w.tasks[3].approvers # <<>>
          /\ w.tasks[3].approvals[1].status = APPROVED
          /\ w.status = COMPLETED

\* The statuses a call gives to workflow wid one after the other, starting
\* with the status before the call: the statuses that the workflow events
\* it appends go with.
StatusPath(wid) ==
    LET IsWorkflowEvent(e) == e.type \in DOMAIN WorkflowEventStatus
        evs == SelectSeq(NewEvents(wid), IsWorkflowEvent)
    IN  <<workflows[wid].status>> \o [k \in 1..Len(evs) |-> WorkflowEventStatus[evs[k].type]]

\* Every change of status along the path of a call is one of edges, and
\* the path ends in the status after the call.
ChangesAlong(edges) ==
    \A wid \in DOMAIN workflows :
      LET path == StatusPath(wid)
      IN  /\ path[Len(path)] = workflows'[wid].status
          /\ \A k \in 1..(Len(path) - 1) :
                path[k] # path[k + 1] => <<path[k], path[k + 1]>> \in edges

StatedEdges ==
    {<<CREATED, RUNNING>>, <<RUNNING, WAITING>>, <<RUNNING, COMPLETED>>,
     <<RUNNING, FAILED>>, <<RUNNING, CANCELLED>>, <<WAITING, RUNNING>>,
     <<WAITING, CANCELLED>>}

\* C19, as stated: every change of a workflow's status is one of the edges
\* CREATED->RUNNING, RUNNING->WAITING, RUNNING->COMPLETED, RUNNING->FAILED,
\* RUNNING->CANCELLED, WAITING->RUNNING, WAITING->CANCELLED, so a workflow
\* leaves CREATED only to RUNNING.
C19_StatedEdgesOnly == [][ChangesAlong(StatedEdges)]_vars

\* C19, amended: every change of a workflow's status is one of the edges
\* stated or CREATED->CANCELLED, the cancel_workflow of a workflow that was
\* never started; a workflow leaves CREATED only to RUNNING, by
\* start_workflow, or to CANCELLED, by cancel_workflow.
C19_StatusEdges ==
    [][ /\ ChangesAlong(StatedEdges \cup {<<CREATED, CANCELLED>>})
        /\ \A wid \in DOMAIN workflows :
             (workflows[wid].status = CREATED /\ workflows'[wid].status # CREATED) =>
               /\ last'.wf = wid /\ last'.ok
               /\ \/ last'.op = "start_workflow" /\ StatusPath(wid)[2] = RUNNING
                  \/ last'.op = "cancel_workflow" /\ workflows'[wid].status = CANCELLED
      ]_vars

\* A workflow that was never started has been cancelled.
C19_Witness ==
    /\ last.op = "cancel_workflow" /\ last.ok
    /\ LET w == workflows[last.wf]
       IN  /\ w.status = CANCELLED
           /\ EventCount(w.history, {"workflow_started"}) = 0
           /\ w.history[Len(w.history)].type = "workflow_cancelled"
           /\ \A j \in 1..Len(w.tasks) : w.tasks[j].status = CANCELLED

\* The statuses of a task that the spec calls terminal.
TaskTerminal == {COMPLETED, FAILED, CANCELLED, SKIPPED}

\* The statuses a call gives to task j of workflow wid one after the other,
\* starting with the status before the call: the status of the task after
\* each of the events that the call appends.
TaskStatusPath(wid, j) ==
    LET w == workflows[wid]
        new == NewEvents(wid)
    IN  [k \in 1..(Len(new) + 1) |->
           Replay(Statuses(w), w, SubSeq(new, 1, k - 1), 1).tasks[j]]

\* C20: COMPLETED, FAILED, CANCELLED and SKIPPED are terminal for a task:
\* once a call has given a task one of these statuses, neither the rest of
\* that call nor any later call changes the status of the task.
C20_TaskTerminal ==
    [][ \A wid \in DOMAIN workflows : \A j \in 1..Len(workflows[wid].tasks) :
          LET path == TaskStatusPath(wid, j)
          IN  /\ path[Len(path)] = workflows'[wid].tasks[j].status
              /\ \A k \in 1..(Len(path) - 1) :
                    path[k] \in TaskTerminal => path[k + 1] = path[k]
      ]_vars

\* C21: when an approve_task call leaves every live approval of the task
\* APPROVED, the task has left WAITING_APPROVAL and is COMPLETED when the
\* call returns, and a workflow that is COMPLETED has all its tasks
\* COMPLETED.
C21_ApprovedTaskCompleted ==
    [][ /\ Returned("approve_task") =>
             LET w2 == workflows'[last'.wf]
                 task2 == w2.tasks[FindTask(w2, last'.task)]
             IN  (\A k \in Live(task2) : task2.approvals[k].status = APPROVED)
                    => task2.status = COMPLETED
        /\ \A wid \in DOMAIN workflows' :
             workflows'[wid].status = COMPLETED =>
               \A j \in 1..Len(workflows'[wid].tasks) :
                  workflows'[wid].tasks[j].status = COMPLETED
      ]_vars

\* Every dependency of task j of workflow w is a task of w that is COMPLETED
\* in the statuses st.
DepsCompleted(w, j, st) ==
    \A k \in 1..Len(w.tasks[j].dependencies) :
        LET d == FindTask(w, w.tasks[j].dependencies[k])
        IN  d # 0 /\ st.tasks[d] = COMPLETED

\* C22: a call sets a task RUNNING (task_started) only when, at that point
\* of the call, every id in its dependency list is the id of a task of the
\* workflow that is COMPLETED, and it invokes a handler only for a task it
\* has started or that was already started.  When a call brings the cursor
\* to a task with a dependency that is missing or not COMPLETED, the task
\* stays PENDING, no handler is invoked for it, the workflow is WAITING and
\* the call has appended exactly one workflow_waiting event, as its last.
C22_DependencyGate ==
    [][ \A wid \in DOMAIN workflows :
          LET w == workflows[wid]
              w2 == workflows'[wid]
              new == NewEvents(wid)
              c == w2.current_task_index
          IN  /\ \A k \in 1..Len(new) :
                    new[k].type = "task_started" =>
                      DepsCompleted(w, FindTask(w, new[k].ref),
                                    Replay(Statuses(w), w, SubSeq(new, 1, k - 1), 1))
              /\ last'.wf = wid =>
                    \A m \in 1..Len(last'.calls) :
                       LET j == FindTask(w, last'.calls[m].task)
                       IN  \/ w.tasks[j].status \in {RUNNING, WAITING_INPUT}
                           \/ \E k \in 1..Len(new) :
                                 new[k] = Event("task_started", w.tasks[j].id, <<>>)
              /\ ( /\ c < Len(w2.tasks)
                   /\ ~DepsCompleted(w2, c + 1, Statuses(w2))
                   /\ \/ c # w.current_task_index
                      \/ Returned("start_workflow") /\ last'.wf = wid )
                 => /\ w2.status = WAITING
                    /\ w2.tasks[c + 1].status = PENDING
                    /\ EventCount(new, {"workflow_waiting"}) = 1
                    /\ new[Len(new)] = Event("workflow_waiting", NoId, <<DepsNotMet>>)
                    /\ \A m \in 1..Len(last'.calls) :
                          last'.calls[m].task # w2.tasks[c + 1].id
              /\ EventCount(new, {"workflow_waiting"}) > 0 =>
                    /\ c < Len(w2.tasks)
                    /\ ~DepsCompleted(w2, c + 1, Statuses(w2))
      ]_vars

\* The approval of the first task has moved the cursor to the second task,
\* whose dependency is no task of the workflow: the workflow is WAITING and
\* the task PENDING.
C22_Witness ==
    /\ last.op = "approve_task" /\ last.ok
    /\ LET w == workflows[last.wf]
       IN  /\ w.current_task_index = 1
           /\ w.status = WAITING
           /\ w.tasks[2].status = PENDING
           /\ w.tasks[2].dependencies # <<>>
           /\ FindTask(w, w.tasks[2].dependencies[1]) = 0
           /\ w.history[Len(w.history)].type = "workflow_waiting"

\* C23: in a workflow created from a template in which task B lists the
\* template's id of an earlier task A as a dependency, the call that brings
\* the cursor to B while A is COMPLETED starts B and does not leave the
\* workflow WAITING.
C23_TemplateDependencySatisfiable ==
    [][ \A wid \in DOMAIN workflows :
          LET w == workflows[wid]
              w2 == workflows'[wid]
              b == w2.current_task_index + 1
          IN  ( /\ w.template_id \in DOMAIN workflow_templates
                /\ w2.current_task_index # w.current_task_index
                /\ b <= Len(w2.tasks)
                /\ w2.tasks[b].dependencies # <<>>
                /\ \A k \in 1..Len(w2.tasks[b].dependencies) :
                      \E a \in 1..(b - 1) :
                         /\ w2.tasks[b].dependencies[k] = TplTaskId(a)
                         /\ w2.tasks[a].status = COMPLETED )
              => /\ w2.status # WAITING
                 /\ w2.tasks[b].status # PENDING
      ]_vars

\* A call re-attempts the advance of workflow wid: it runs the dependency
\* check for the task at the cursor again, so it appends workflow_waiting
\* once more or starts the task.
Reattempts(wid) ==
    /\ last'.wf = wid /\ last'.ok
    /\ EventCount(NewEvents(wid), {"workflow_waiting", "task_started"}) > 0

\* C24: a WAITING workflow is not stuck: in every state in which a workflow
\* is WAITING, some call of the engine re-attempts its advance, which is
\* what lets the workflow return to RUNNING once the dependencies of the
\* task at the cursor are COMPLETED.
C24_WaitingIsRetried ==
    \A wid \in DOMAIN workflows :
      workflows[wid].status = WAITING => ENABLED (Next /\ Reattempts(wid))

\* C25: provide_input returns only for a task that is WAITING_INPUT; when it
\* returns, the input is stored in the data of the task, the call has
\* appended input_provided as its first event, and the task is RUNNING,
\* COMPLETED, WAITING_APPROVAL or FAILED: it is not WAITING_INPUT again.
C25_ProvideInput ==
    [][ Returned("provide_input") =>
          LET w == workflows[last'.wf]
              w2 == workflows'[last'.wf]
              i == FindTask(w, last'.task)
              new == NewEvents(last'.wf)
          IN  /\ i # 0
              /\ w.tasks[i].status = WAITING_INPUT
              /\ heap'[w2.tasks[i].data].input \in Inputs
              /\ Len(new) >= 1
              /\ new[1] = Event("input_provided", last'.task, <<>>)
              /\ w2.tasks[i].status \in {RUNNING, COMPLETED, WAITING_APPROVAL, FAILED}
      ]_vars

\* C26: in every state, no task has two approvals that are not DELEGATED
\* for the same approver.
C26_OneLiveApprovalPerApprover ==
    \A wid \in DOMAIN workflows :
      \A j \in 1..Len(workflows[wid].tasks) :
        LET task == workflows[wid].tasks[j]
        IN  \A k, m \in Live(task) :
              k # m => task.approvals[k].approver # task.approvals[m].approver

\* What a reader finds in workflow x, in the workflows wfs and the objects
\* hp: the workflow dict with the contents of its participants list and of
\* the data dict of each task.
Contents(wfs, hp, x) ==
    [wfs[x] EXCEPT !.participants = hp[@],
                   !.tasks = [j \in 1..Len(wfs[x].tasks) |->
                                [wfs[x].tasks[j] EXCEPT !.data = hp[@]]]]

\* C27: a provide_input, add_workflow_participant,
\* remove_workflow_participant or delegate_approval call on one workflow
\* changes neither a registered template (its dict, the data dicts of its
\* tasks, its participants list) nor the tasks, task data or participants
\* of any other workflow.
C27_DeepCopy ==
    [][ ( /\ last'.ok
          /\ last'.op \in {"provide_input", "add_workflow_participant",
                           "remove_workflow_participant", "delegate_approval"} )
        => /\ workflow_templates' = workflow_templates
           /\ \A a \in DOMAIN TemplateHeap : heap'[a] = heap[a]
           /\ \A x \in DOMAIN workflows \ {last'.wf} :
                 Contents(workflows', heap', x) = Contents(workflows, heap, x)
      ]_vars

\* C28: when cancel_workflow takes effect on a workflow during the
\* invocation of the handler of one of its automatic tasks (the call
\* appends workflow_cancelled without being a cancel_workflow call), then
\* after the call the workflow is CANCELLED, the task whose handler was
\* invoked is CANCELLED, the cursor is where it was and the call has
\* started no task after the cancellation.
C28_CancelInFlight ==
    [][ \A wid \in DOMAIN workflows :
          LET new == NewEvents(wid)
              w == workflows[wid]
              w2 == workflows'[wid]
              cancels == {k \in 1..Len(new) : new[k].type = "workflow_cancelled"}
          IN  (last'.op # "cancel_workflow" /\ cancels # {}) =>
                /\ w2.status = CANCELLED
                /\ \A c \in 1..Len(last'.calls) :
                      w2.tasks[FindTask(w2, last'.calls[c].task)].status = CANCELLED
                /\ \A k \in cancels :
                      /\ \A m \in (k+1)..Len(new) : new[m].type # "task_started"
                      /\ w2.current_task_index =
                           FindTask(w2, last'.calls[Len(last'.calls)].task) - 1
      ]_vars

\* C29: the tasks of a workflow made by create_workflow run in sequence: in
\* every state the cursor is between 0 and the number of tasks, a task that
\* is RUNNING or WAITING_INPUT is the task at the cursor (so there is at
\* most one), and every task after the task at the cursor is PENDING or
\* CANCELLED; and no step decreases the cursor.
C29_TasksInSequence ==
    /\ [](\A wid \in DOMAIN workflows :
            LET w == workflows[wid]
                c == w.current_task_index
            IN  w.template_id \in RegisteredIds =>
                  /\ c \in 0..Len(w.tasks)
                  /\ \A j \in 1..Len(w.tasks) :
                        /\ w.tasks[j].status \in {RUNNING, WAITING_INPUT} => j = c + 1
                        /\ j > c + 1 => w.tasks[j].status \in {PENDING, CANCELLED})
    /\ [][ \A wid \in DOMAIN workflows \cap DOMAIN workflows' :
             workflows[wid].template_id \in RegisteredIds =>
               workflows'[wid].current_task_index >= workflows[wid].current_task_index
         ]_vars

\* A created workflow whose cursor has moved past a completed task to a
\* task that is RUNNING, with a task after it still PENDING.
C29_Witness ==
    \E wid \in DOMAIN workflows :
      LET w == workflows[wid]
          c == w.current_task_index
      IN  /\ w.template_id \in RegisteredIds
          /\ c >= 1 /\ c + 2 <= Len(w.tasks)
          /\ w.tasks[c].status = COMPLETED
          /\ w.tasks[c + 1].status = RUNNING
          /\ w.tasks[c + 2].status = PENDING

\* C30: an import_workflow call that raises registers no workflow: the
\* engine holds the same workflows as before the call.
C30_ImportAtomic ==
    [][ Refused("import_workflow") => workflows' = workflows ]_vars
====
